---- MODULE Spec2Model ----
(***************************************************************************)
(* Model of the dual-track sector-relative screening engine                *)
(* (scripts/scanner/sector_screener.py), its threshold configuration       *)
(* (scripts/scanner/config.py), the metric record                          *)
(* (scripts/scanner/data_fetcher.py) and the legacy absolute screener      *)
(* (scripts/scanner/screener.py).                                          *)
(*                                                                         *)
(* Numbers.  The source computes with floats; the model computes with      *)
(* exact integers and exact rationals <<numerator, denominator>> in lowest *)
(* terms.  Units: trailing_pe, trailing_eps, book_value and current_price  *)
(* are in units of 1; peg_ratio and debt_to_equity are in tenths (8 is     *)
(* 0.8); roe is in percent (20 is 0.20).  The thresholds are written in    *)
(* the same units.  Optional[T] is a sequence: None is <<>> and a present  *)
(* value v is <<v>>.                                                       *)
(***************************************************************************)
EXTENDS Integers, Sequences, FiniteSets, TLC

VARIABLES
    metrics_list,   \* the batch handed to the screener: Seq(TickerMetrics)
    thresholds,     \* the thresholds the last screening ran with
    results,        \* the list the last screening returned
    pc,             \* "input" | "dual_track" (screen_batch_dual_track returned)
                    \*         | "legacy" (screen_batch returned)
                    \*         | "unit" (a helper called on its own returned)
    call,           \* the last call of a helper on its own: its name, its
                    \* arguments and the value it returned
    cache,          \* the MetricsCache instance, its file and the clock
    fetch           \* the progress of fetching from the network

vars == <<metrics_list, thresholds, results, pc, call, cache, fetch>>

----------------------------------------------------------------------------
(* Optional values and Python truthiness                                   *)

None == <<>>

Some(v) == <<v>>

\* bool(x) of an Optional[float]: None and 0.0 are falsy.
Truthy(x) == x # None /\ x[1] # 0

\* bool(x) of an Optional[float] held as a rational: None and 0.0 are falsy.
TruthyRatio(x) == x # None /\ x[1][1] # 0

----------------------------------------------------------------------------
(* Exact arithmetic standing for the floats of the source                  *)

Abs(x) == IF x < 0 THEN -x ELSE x

RECURSIVE GCD(_, _)
GCD(a, b) == IF b = 0 THEN a ELSE GCD(b, a % b)

\* a / b for b > 0, in lowest terms.
Ratio(a, b) == LET g == GCD(Abs(a), b) IN <<a \div g, b \div g>>

RatioLeq(x, y) == x[1] * y[2] <= y[1] * x[2]

RatioLess(x, y) == x[1] * y[2] < y[1] * x[2]

\* math.sqrt on the perfect squares the input sets produce (an input whose
\* product is no perfect square has no value here, and TLC reports it).
Sqrt(n) == CHOOSE r \in 0..n : r * r = n

----------------------------------------------------------------------------
(* scripts/scanner/config.py                                               *)

\* ScreeningThresholds(): pe_ratio_max 15.0, peg_ratio_max 1.0 (tenths),
\* roe_min 0.15 (percent), debt_to_equity_max 0.5 (tenths),
\* graham_multiplier 22.5 (held doubled).
DEFAULT_THRESHOLDS ==
    [pe_ratio_max |-> 15, peg_ratio_max |-> 10, roe_min |-> 15,
     debt_to_equity_max |-> 5, graham_multiplier_x2 |-> 45]

\* SectorRelativeThresholds(): sector_percentile_threshold 0.30,
\* min_sector_size 5, safety_pe_max 50.0, safety_peg_max 3.0 (tenths),
\* safety_roe_min 0.05 (percent), safety_de_max 2.0 (tenths),
\* graham_multiplier 22.5 (held doubled).
DEFAULT_SECTOR_THRESHOLDS ==
    [sector_percentile_threshold |-> Ratio(30, 100), min_sector_size |-> 5,
     safety_pe_max |-> 50, safety_peg_max |-> 30, safety_roe_min |-> 5,
     safety_de_max |-> 20, graham_multiplier_x2 |-> 45]

\* sqrt(multiplier * eps * bvps), None when an input is zero or negative.
calculate_graham_number(eps, book_value_per_share, multiplier_x2) ==
    IF eps <= 0 \/ book_value_per_share <= 0
    THEN None
    ELSE Some(Sqrt((multiplier_x2 * eps * book_value_per_share) \div 2))

----------------------------------------------------------------------------
(* scripts/scanner/data_fetcher.py                                         *)

\* TickerMetrics(symbol=...): every financial field defaults to None.
TickerMetrics(symbol) ==
    [symbol |-> symbol, trailing_pe |-> None, peg_ratio |-> None,
     roe |-> None, debt_to_equity |-> None, trailing_eps |-> None,
     book_value |-> None, current_price |-> None, sector |-> None,
     fetch_error |-> None]

\* is_valid that looks at fetch_error only.
is_valid_fetch_only(m) == m.fetch_error = None

is_valid(m) == m.fetch_error = None /\ m.trailing_eps # None

----------------------------------------------------------------------------
(* scripts/scanner/sector_screener.py                                      *)

\* SectorPercentiles(...)
SectorPercentiles(pe, peg, roe, de, sector, count) ==
    [pe_percentile |-> pe, peg_percentile |-> peg, roe_percentile |-> roe,
     de_percentile |-> de, sector |-> sector, sector_count |-> count]

\* _compute_metric_rank that divides by N.
_compute_metric_rank_over_n(value, all_values, lower_is_better) ==
    LET n == Len(all_values)
        better_count ==
            IF lower_is_better
            THEN Cardinality({i \in 1..n : all_values[i] < value})
            ELSE Cardinality({i \in 1..n : all_values[i] > value})
    IN  IF n <= 1 THEN Ratio(0, 1) ELSE Ratio(better_count, n)

\* _compute_metric_rank that takes lower to be better whatever the flag.
_compute_metric_rank_lower_only(value, all_values, lower_is_better) ==
    LET n == Len(all_values)
        better_count == Cardinality({i \in 1..n : all_values[i] < value})
    IN  IF n <= 1 THEN Ratio(0, 1) ELSE Ratio(better_count, n - 1)

\* better_count / (N - 1); 0.0 for a single element.
_compute_metric_rank(value, all_values, lower_is_better) ==
    LET n == Len(all_values)
        better_count ==
            IF lower_is_better
            THEN Cardinality({i \in 1..n : all_values[i] < value})
            ELSE Cardinality({i \in 1..n : all_values[i] > value})
    IN  IF n <= 1 THEN Ratio(0, 1) ELSE Ratio(better_count, n - 1)

\* SectorLabel that maps None alone to "Unknown".
SectorLabelNoneOnly(m) ==
    IF m.sector = None THEN "Unknown" ELSE m.sector[1]

\* m.sector or "Unknown": None and the empty string are falsy.
SectorLabel(m) ==
    IF m.sector = None \/ m.sector[1] = "" THEN "Unknown" ELSE m.sector[1]

\* The keys of the groups dict, in insertion (first occurrence) order.
RECURSIVE SectorKeys(_)
SectorKeys(ml) ==
    IF ml = <<>> THEN <<>>
    ELSE LET front == SectorKeys(SubSeq(ml, 1, Len(ml) - 1))
             label == SectorLabel(ml[Len(ml)])
         IN  IF \E i \in 1..Len(front) : front[i] = label
             THEN front
             ELSE Append(front, label)

\* _group_by_sector that files every record under one key.
_group_by_sector_single(ml) ==
    IF ml = <<>> THEN <<>> ELSE <<<<"Unknown", ml>>>>

\* The dict as the sequence of its items: <<sector, group>> in key order,
\* each group in input order.
_group_by_sector(ml) ==
    LET keys == SectorKeys(ml)
    IN  [k \in 1..Len(keys) |->
            <<keys[k], SelectSeq(ml, LAMBDA m : SectorLabel(m) = keys[k])>>]

\* [m.f for m in sector_group if m.f is not None]
MetricValues(sector_group, f) ==
    LET present == SelectSeq(sector_group, LAMBDA m : m[f] # None)
    IN  [i \in 1..Len(present) |-> present[i][f][1]]

\* MetricPercentile that ranks whenever the group has a value of the metric.
MetricPercentileAnyValue(metrics, sector_group, f, lower_is_better) ==
    LET values == MetricValues(sector_group, f)
    IN  IF metrics[f] # None /\ Len(values) > 0
        THEN Some(_compute_metric_rank(metrics[f][1], values, lower_is_better))
        ELSE None

\* One percentile: None unless the target has the metric and the group has
\* more than one value of it.
MetricPercentile(metrics, sector_group, f, lower_is_better) ==
    LET values == MetricValues(sector_group, f)
    IN  IF metrics[f] # None /\ Len(values) > 1
        THEN Some(_compute_metric_rank(metrics[f][1], values, lower_is_better))
        ELSE None

_calculate_sector_percentiles(metrics, sector_group) ==
    SectorPercentiles(
        MetricPercentile(metrics, sector_group, "trailing_pe", TRUE),
        MetricPercentile(metrics, sector_group, "peg_ratio", TRUE),
        MetricPercentile(metrics, sector_group, "roe", FALSE),
        MetricPercentile(metrics, sector_group, "debt_to_equity", TRUE),
        SectorLabel(metrics),
        Len(sector_group))

\* A fail reason of a threshold rule: the rule, the observed value and the
\* threshold crossed (the source formats the three into one string).  Every
\* reason is a record; reasons of different kinds differ in their fields.
SafetyReason(rule, value, limit) ==
    [rule |-> rule, value |-> value, limit |-> limit]

\* SafetyReasons in which a missing metric is a reason of its own.
SafetyReasonsMissingFails(metrics, th) ==
    (IF metrics.trailing_pe # None
     THEN IF metrics.trailing_pe[1] >= th.safety_pe_max
          THEN <<SafetyReason("P/E >=", metrics.trailing_pe[1], th.safety_pe_max)>>
          ELSE <<>>
     ELSE <<SafetyReason("P/E >=", None, th.safety_pe_max)>>)
    \o
    (IF metrics.peg_ratio # None
     THEN IF metrics.peg_ratio[1] >= th.safety_peg_max
          THEN <<SafetyReason("PEG >=", metrics.peg_ratio[1], th.safety_peg_max)>>
          ELSE <<>>
     ELSE <<SafetyReason("PEG >=", None, th.safety_peg_max)>>)
    \o
    (IF metrics.roe # None
     THEN IF metrics.roe[1] < th.safety_roe_min
          THEN <<SafetyReason("ROE <", metrics.roe[1], th.safety_roe_min)>>
          ELSE <<>>
     ELSE <<SafetyReason("ROE <", None, th.safety_roe_min)>>)
    \o
    (IF metrics.debt_to_equity # None
     THEN IF metrics.debt_to_equity[1] > th.safety_de_max
          THEN <<SafetyReason("D/E >", metrics.debt_to_equity[1], th.safety_de_max)>>
          ELSE <<>>
     ELSE <<SafetyReason("D/E >", None, th.safety_de_max)>>)

\* The reasons, in the order the four rules are tested.
SafetyReasons(metrics, th) ==
    (IF metrics.trailing_pe # None /\ metrics.trailing_pe[1] >= th.safety_pe_max
     THEN <<SafetyReason("P/E >=", metrics.trailing_pe[1], th.safety_pe_max)>>
     ELSE <<>>)
    \o
    (IF metrics.peg_ratio # None /\ metrics.peg_ratio[1] >= th.safety_peg_max
     THEN <<SafetyReason("PEG >=", metrics.peg_ratio[1], th.safety_peg_max)>>
     ELSE <<>>)
    \o
    (IF metrics.roe # None /\ metrics.roe[1] < th.safety_roe_min
     THEN <<SafetyReason("ROE <", metrics.roe[1], th.safety_roe_min)>>
     ELSE <<>>)
    \o
    (IF metrics.debt_to_equity # None /\ metrics.debt_to_equity[1] > th.safety_de_max
     THEN <<SafetyReason("D/E >", metrics.debt_to_equity[1], th.safety_de_max)>>
     ELSE <<>>)

\* _apply_safety_filter that returns at the first violated rule.
_apply_safety_filter_first_only(metrics, th) ==
    LET fail_reasons == SafetyReasons(metrics, th)
    IN  <<Len(fail_reasons) = 0,
          IF fail_reasons = <<>> THEN <<>> ELSE <<fail_reasons[1]>>>>

\* (len(fail_reasons) == 0, fail_reasons)
_apply_safety_filter(metrics, th) ==
    LET fail_reasons == SafetyReasons(metrics, th)
    IN  <<Len(fail_reasons) = 0, fail_reasons>>

\* PctChecks with < in place of <=.
PctChecksStrict(percentiles, th) ==
    LET check(p) == IF p # None
                    THEN <<RatioLess(p[1], th.sector_percentile_threshold)>>
                    ELSE <<>>
    IN  check(percentiles.pe_percentile) \o check(percentiles.peg_percentile)
        \o check(percentiles.roe_percentile) \o check(percentiles.de_percentile)

\* pct_checks: one comparison per percentile that is not None.
PctChecks(percentiles, th) ==
    LET check(p) == IF p # None
                    THEN <<RatioLeq(p[1], th.sector_percentile_threshold)>>
                    ELSE <<>>
    IN  check(percentiles.pe_percentile) \o check(percentiles.peg_percentile)
        \o check(percentiles.roe_percentile) \o check(percentiles.de_percentile)

\* Track1Passed without the len(pct_checks) > 0 conjunct.
Track1PassedVacuous(percentiles, th) ==
    LET pct_checks == PctChecks(percentiles, th)
    IN  \A i \in 1..Len(pct_checks) : pct_checks[i]

\* len(pct_checks) > 0 and all(pct_checks)
Track1Passed(percentiles, th) ==
    LET pct_checks == PctChecks(percentiles, th)
    IN  Len(pct_checks) > 0 /\ \A i \in 1..Len(pct_checks) : pct_checks[i]

\* SectorPassed with the percentile filter applied whatever the group size.
SectorPassedAlwaysFiltered(use_sector_filter, percentiles, th) ==
    Track1Passed(percentiles, th)

\* sector_passed: the Track-1 rule when the group is large enough, True
\* otherwise.
SectorPassed(use_sector_filter, percentiles, th) ==
    IF use_sector_filter THEN Track1Passed(percentiles, th) ELSE TRUE

\* FinalVerdict that ignores the safety filter.
FinalVerdictSectorOnly(safety_passed, sector_passed) == sector_passed

\* passed = safety_passed and sector_passed
FinalVerdict(safety_passed, sector_passed) == safety_passed /\ sector_passed

\* The marker appended when Track 1 ran and failed.
SectorFailMarker == [rule |-> "failed sector percentile filter"]

\* CollectFailReasons with the marker appended after the safety reasons.
CollectFailReasonsMarkerLast(sector_passed, use_sector_filter, safety_passed, safety_reasons) ==
    (IF ~safety_passed THEN safety_reasons ELSE <<>>)
    \o (IF ~sector_passed /\ use_sector_filter THEN <<SectorFailMarker>> ELSE <<>>)

\* fail_reasons of one security.
CollectFailReasons(sector_passed, use_sector_filter, safety_passed, safety_reasons) ==
    (IF ~sector_passed /\ use_sector_filter THEN <<SectorFailMarker>> ELSE <<>>)
    \o (IF ~safety_passed THEN safety_reasons ELSE <<>>)

\* graham: the estimate, computed when EPS and book value are both truthy.
GrahamOf(metrics, multiplier_x2) ==
    IF Truthy(metrics.trailing_eps) /\ Truthy(metrics.book_value)
    THEN calculate_graham_number(metrics.trailing_eps[1], metrics.book_value[1],
                                 multiplier_x2)
    ELSE None

\* mos_pct = (graham - current_price) / graham * 100, computed when the
\* estimate and the price are both truthy.
MarginOf(metrics, graham) ==
    IF Truthy(graham) /\ Truthy(metrics.current_price)
    THEN Some(Ratio((graham[1] - metrics.current_price[1]) * 100, graham[1]))
    ELSE None

\* The body of the loop over one group's members: the result of one valid
\* security.
ScreenSecurity(metrics, group, th) ==
    LET use_sector_filter == Len(group) >= th.min_sector_size
        safety == _apply_safety_filter(metrics, th)
        safety_passed == safety[1]
        safety_reasons == safety[2]
        percentiles == _calculate_sector_percentiles(metrics, group)
        screening_mode == IF use_sector_filter THEN "dual_track" ELSE "safety_only"
        sector_passed == SectorPassed(use_sector_filter, percentiles, th)
        passed == FinalVerdict(safety_passed, sector_passed)
        graham == GrahamOf(metrics, th.graham_multiplier_x2)
    IN  [symbol |-> metrics.symbol,
         passed |-> passed,
         screening_mode |-> screening_mode,
         sector_percentiles |-> Some(percentiles),
         passed_sector_filter |-> sector_passed,
         passed_safety_filter |-> safety_passed,
         safety_fail_reasons |-> safety_reasons,
         graham_number |-> graham,
         current_price |-> metrics.current_price,
         margin_of_safety_pct |-> MarginOf(metrics, graham),
         metrics |-> metrics,
         fail_reasons |-> CollectFailReasons(sector_passed, use_sector_filter,
                                             safety_passed, safety_reasons)]

\* str(x) inside an f-string: the text of a string, "None" for None.
FormatOptional(x) == IF x = None THEN "None" ELSE x[1]

\* The reason of an error result: a fixed prefix followed by the formatted
\* fetch_error.
FetchFailedReason(m) ==
    [prefix |-> "data fetch failed: ", text |-> FormatOptional(m.fetch_error)]

\* The result of one invalid record: the other fields keep the dataclass
\* defaults.
ErrorResult(m) ==
    [symbol |-> m.symbol,
     passed |-> FALSE,
     screening_mode |-> "error",
     sector_percentiles |-> None,
     passed_sector_filter |-> FALSE,
     passed_safety_filter |-> FALSE,
     safety_fail_reasons |-> <<>>,
     graham_number |-> None,
     current_price |-> None,
     margin_of_safety_pct |-> None,
     metrics |-> m,
     fail_reasons |-> <<FetchFailedReason(m)>>]

\* key=lambda r: r.margin_of_safety_pct or -999
SortKey(r) ==
    IF TruthyRatio(r.margin_of_safety_pct)
    THEN r.margin_of_safety_pct[1]
    ELSE Ratio(-999, 1)

\* list.sort(key=..., reverse=True): descending by key and stable (results
\* of equal key keep their order).  Each result is inserted after the
\* results whose key is >= its own.
RECURSIVE SortByKeyDesc(_)
SortByKeyDesc(rs) ==
    IF rs = <<>> THEN <<>>
    ELSE LET front == SortByKeyDesc(SubSeq(rs, 1, Len(rs) - 1))
             r == rs[Len(rs)]
             k == Cardinality({i \in 1..Len(front) :
                                  RatioLeq(SortKey(r), SortKey(front[i]))})
         IN  SubSeq(front, 1, k) \o <<r>> \o SubSeq(front, k + 1, Len(front))

\* SortResults that sorts the whole list by the key, failed results too.
SortResultsWhole(rs) == SortByKeyDesc(rs)

\* passed + failed, with passed sorted.
SortResults(rs) ==
    LET passed == SelectSeq(rs, LAMBDA r : r.passed)
        failed == SelectSeq(rs, LAMBDA r : ~r.passed)
    IN  SortByKeyDesc(passed) \o failed

\* The results of the first k groups, group by group, members in order.
RECURSIVE GroupResults(_, _, _)
GroupResults(sector_groups, k, th) ==
    IF k = 0 THEN <<>>
    ELSE LET group == sector_groups[k][2]
         IN  GroupResults(sector_groups, k - 1, th)
             \o [i \in 1..Len(group) |-> ScreenSecurity(group[i], group, th)]

\* ValidMetrics without the filter: every record enters grouping.
ValidMetricsUnfiltered(ml) == ml

\* valid_metrics = [m for m in metrics_list if m.is_valid]
ValidMetrics(ml) == SelectSeq(ml, is_valid)

\* invalid_metrics = [m for m in metrics_list if not m.is_valid]
InvalidMetrics(ml) == SelectSeq(ml, LAMBDA m : ~is_valid(m))

screen_batch_dual_track(ml, th) ==
    LET valid_metrics == ValidMetrics(ml)
        invalid_metrics == InvalidMetrics(ml)
        sector_groups == _group_by_sector(valid_metrics)
        valid_results == GroupResults(sector_groups, Len(sector_groups), th)
        error_results == [i \in 1..Len(invalid_metrics) |->
                             ErrorResult(invalid_metrics[i])]
    IN  SortResults(valid_results \o error_results)

----------------------------------------------------------------------------
(* scripts/scanner/screener.py                                             *)

\* LegacyReasons in which a missing metric is no reason.
LegacyReasonsMissingPasses(metrics, th) ==
    (IF metrics.trailing_pe # None /\ metrics.trailing_pe[1] >= th.pe_ratio_max
     THEN <<SafetyReason("P/E >=", metrics.trailing_pe[1], th.pe_ratio_max)>>
     ELSE <<>>)
    \o
    (IF metrics.peg_ratio # None /\ metrics.peg_ratio[1] >= th.peg_ratio_max
     THEN <<SafetyReason("PEG >=", metrics.peg_ratio[1], th.peg_ratio_max)>>
     ELSE <<>>)
    \o
    (IF metrics.roe # None /\ metrics.roe[1] < th.roe_min
     THEN <<SafetyReason("ROE <", metrics.roe[1], th.roe_min)>>
     ELSE <<>>)
    \o
    (IF metrics.debt_to_equity # None /\ metrics.debt_to_equity[1] > th.debt_to_equity_max
     THEN <<SafetyReason("D/E >", metrics.debt_to_equity[1], th.debt_to_equity_max)>>
     ELSE <<>>)

\* The reasons of the four absolute filters, in the order they are tested;
\* a missing metric is a reason of its own.
LegacyReasons(metrics, th) ==
    (IF metrics.trailing_pe # None
     THEN IF metrics.trailing_pe[1] >= th.pe_ratio_max
          THEN <<SafetyReason("P/E >=", metrics.trailing_pe[1], th.pe_ratio_max)>>
          ELSE <<>>
     ELSE <<[rule |-> "P/E ratio unavailable"]>>)
    \o
    (IF metrics.peg_ratio # None
     THEN IF metrics.peg_ratio[1] >= th.peg_ratio_max
          THEN <<SafetyReason("PEG >=", metrics.peg_ratio[1], th.peg_ratio_max)>>
          ELSE <<>>
     ELSE <<[rule |-> "PEG ratio unavailable"]>>)
    \o
    (IF metrics.roe # None
     THEN IF metrics.roe[1] < th.roe_min
          THEN <<SafetyReason("ROE <", metrics.roe[1], th.roe_min)>>
          ELSE <<>>
     ELSE <<[rule |-> "ROE unavailable"]>>)
    \o
    (IF metrics.debt_to_equity # None
     THEN IF metrics.debt_to_equity[1] > th.debt_to_equity_max
          THEN <<SafetyReason("D/E >", metrics.debt_to_equity[1], th.debt_to_equity_max)>>
          ELSE <<>>
     ELSE <<[rule |-> "Debt/Equity unavailable"]>>)

\* The reason of an invalid ticker.
InvalidDataReason(m) ==
    [prefix |-> "Invalid data: ", text |-> FormatOptional(m.fetch_error)]

screen_ticker(metrics, th) ==
    IF ~is_valid(metrics)
    THEN [symbol |-> metrics.symbol, passed |-> FALSE, graham_number |-> None,
          current_price |-> None, margin_of_safety_pct |-> None,
          metrics |-> metrics, fail_reasons |-> <<InvalidDataReason(metrics)>>]
    ELSE LET fail_reasons == LegacyReasons(metrics, th)
             graham == GrahamOf(metrics, th.graham_multiplier_x2)
         IN  [symbol |-> metrics.symbol,
              passed |-> Len(fail_reasons) = 0,
              graham_number |-> graham,
              current_price |-> metrics.current_price,
              margin_of_safety_pct |-> MarginOf(metrics, graham),
              metrics |-> metrics,
              fail_reasons |-> fail_reasons]

screen_batch(ml, th) ==
    SortResults([i \in 1..Len(ml) |-> screen_ticker(ml[i], th)])

----------------------------------------------------------------------------
(* scripts/scanner/metrics_cache.py                                        *)
(*                                                                         *)
(* The variable cache holds the instance (data: the dict _data as a        *)
(* function from keys to entries; dirty: _dirty), its environment (file:   *)
(* the cache file; now: the UTC clock in seconds) and, for the properties, *)
(* history: the last record put under each key since the last clear, with  *)
(* the time of the put.                                                    *)

\* The configuration the cache is constructed with: ttl_seconds and the
\* shorter error_ttl_seconds.
TestCacheConfig == [ttl_seconds |-> 3, error_ttl_seconds |-> 1]

\* {}
EmptyDict == [k \in {} |-> None]

\* d[key] = value
DictSet(d, key, value) ==
    [k \in DOMAIN d \cup {key} |-> IF k = key THEN value ELSE d[k]]

\* str.upper() on the symbols of the model.
Upper(symbol) ==
    CASE symbol = "aapl" -> "AAPL"
      [] symbol = "msft" -> "MSFT"
      [] OTHER           -> symbol

\* bool(x) of an Optional[str]: None and the empty string are falsy.
TruthyStr(x) == x # None /\ x[1] # ""

\* TickerMetrics.to_dict(): the dict of the fields.
to_dict(m) ==
    [f \in {"symbol", "trailing_pe", "peg_ratio", "roe", "debt_to_equity",
            "trailing_eps", "book_value", "current_price", "sector",
            "fetch_error"} |-> m[f]]

\* TickerMetrics.from_dict(data)
from_dict(data) ==
    [symbol |-> data["symbol"], trailing_pe |-> data["trailing_pe"],
     peg_ratio |-> data["peg_ratio"], roe |-> data["roe"],
     debt_to_equity |-> data["debt_to_equity"],
     trailing_eps |-> data["trailing_eps"], book_value |-> data["book_value"],
     current_price |-> data["current_price"], sector |-> data["sector"],
     fetch_error |-> data["fetch_error"]]

\* MetricsCache(config, cache_dir): empty data, not dirty.
NewMetricsCache == [data |-> EmptyDict, dirty |-> FALSE]

\* MetricsCache.get(symbol): the record of the entry, None when there is no
\* entry or the entry is older than its TTL.
MetricsCache_get(data, now, config, symbol) ==
    LET key == Upper(symbol)
    IN  IF key \notin DOMAIN data THEN None
        ELSE LET entry == data[key]
                 age_seconds == now - entry.fetched_at
                 metrics == from_dict(entry.metrics)
                 ttl == IF TruthyStr(metrics.fetch_error)
                        THEN config.error_ttl_seconds
                        ELSE config.ttl_seconds
             IN  IF age_seconds > ttl THEN None ELSE Some(metrics)

\* MetricsCache.put(metrics): the data after the put.
MetricsCache_put(data, now, metrics) ==
    DictSet(data, Upper(metrics.symbol),
            [fetched_at |-> now, metrics |-> to_dict(metrics)])

\* The cache file on disk is one of: "missing" (no file), "json" (a JSON
\* object of entries), "corrupt" (text that is not JSON: json.load raises
\* JSONDecodeError) and "undecodable" (bytes that are not UTF-8 text:
\* reading the file raises UnicodeDecodeError).

\* MetricsCache.load() raises: the except clause catches JSONDecodeError and
\* OSError only, and UnicodeDecodeError is neither.
MetricsCache_load_raises(file) == file.kind = "undecodable"

\* MetricsCache.load(): the data read from the file, empty when the file is
\* missing or is not JSON.
MetricsCache_load(file) ==
    IF file.kind = "json" THEN file.data ELSE EmptyDict

\* MetricsCache.save(): the file and the dirty flag after the call, and
\* whether the file was written; nothing happens unless dirty.
MetricsCache_save(data, dirty, file) ==
    IF ~dirty
    THEN [file |-> file, dirty |-> dirty, wrote |-> FALSE]
    ELSE [file |-> [kind |-> "json", data |-> data], dirty |-> FALSE,
          wrote |-> TRUE]

----------------------------------------------------------------------------
(* scripts/scanner/data_fetcher.py: _fetch_from_yfinance                   *)

\* A retry loop that waits retry_delay after every failed attempt.
RetryDelayConstant(retry_delay, attempt) == retry_delay

\* delay = retry_delay * (2**attempt)
RetryDelay(retry_delay, attempt) == retry_delay * (2 ^ attempt)

\* `not info or info.get("quoteType") is None`: ticker.info is an empty
\* dict, or it has no quoteType.
NoDataReturned(info) == info.kind \in {"empty", "no_quote_type"}

\* f"No data returned for {symbol}"
NoDataText(symbol) ==
    CASE symbol = "AAPL" -> "No data returned for AAPL"
      [] symbol = "MSFT" -> "No data returned for MSFT"
      [] OTHER           -> "No data returned for the symbol"

\* TickerMetrics(symbol=symbol, fetch_error=f"No data returned for {symbol}")
NoDataRecord(symbol) ==
    [TickerMetrics(symbol) EXCEPT !.fetch_error = Some(NoDataText(symbol))]

\* The TickerMetrics built from ticker.info.
InfoRecord(symbol, info) ==
    [TickerMetrics(symbol) EXCEPT !.trailing_pe = info.trailingPE,
                                  !.trailing_eps = info.trailingEps]

----------------------------------------------------------------------------
(* scripts/scanner/data_fetcher.py: fetch_batch_metrics                    *)

\* The indices of the set kept, in ascending order.
SelectIndices(kept) ==
    [k \in 1..Cardinality(kept) |->
        CHOOSE i \in kept : Cardinality({j \in kept : j < i}) = k - 1]

\* The data after cache.put of each of the records, in order.
RECURSIVE PutAll(_, _, _)
PutAll(data, now, records) ==
    IF records = <<>> THEN data
    ELSE PutAll(MetricsCache_put(data, now, records[1]), now, Tail(records))

\* list.sort(key=lambda pair: pair[0]) on pairs <<index, metrics>>: each
\* pair is inserted after the pairs whose index is <= its own.
RECURSIVE SortByIndex(_)
SortByIndex(pairs) ==
    IF pairs = <<>> THEN <<>>
    ELSE LET front == SortByIndex(SubSeq(pairs, 1, Len(pairs) - 1))
             p == pairs[Len(pairs)]
             k == Cardinality({i \in 1..Len(front) : front[i][1] <= p[1]})
         IN  SubSeq(front, 1, k) \o <<p>> \o SubSeq(front, k + 1, Len(front))

\* fetch_batch_metrics that returns the cache hits followed by the fetched
\* records.
MergeUnsorted(cached_results, fetched_results) ==
    LET all_results == cached_results \o fetched_results
    IN  [i \in 1..Len(all_results) |-> all_results[i][2]]

\* cached_results + fetched_results, sorted by original index, without the
\* indices.
MergeByIndex(cached_results, fetched_results) ==
    LET all_results == SortByIndex(cached_results \o fetched_results)
    IN  [i \in 1..Len(all_results) |-> all_results[i][2]]

\* fetch_batch_metrics(symbols, use_cache) at time now with the cache file
\* as given, the network answering the k-th fetch with answers[k]: what the
\* call returns and what it does.
fetch_batch_metrics(symbols, use_cache, file, now, config, answers) ==
    LET loaded == IF use_cache THEN MetricsCache_load(file) ELSE EmptyDict
        cached(i) == IF use_cache
                     THEN MetricsCache_get(loaded, now, config, symbols[i])
                     ELSE None
        hit_indices == SelectIndices({i \in 1..Len(symbols) : cached(i) # None})
        fetch_needed == SelectIndices({i \in 1..Len(symbols) : cached(i) = None})
        cached_results == [k \in 1..Len(hit_indices) |->
                              <<hit_indices[k], cached(hit_indices[k])[1]>>]
        fetched == [k \in 1..Len(fetch_needed) |->
                       [TickerMetrics(symbols[fetch_needed[k]]) EXCEPT
                           !.trailing_pe = answers[k].trailing_pe,
                           !.trailing_eps = answers[k].trailing_eps,
                           !.fetch_error = answers[k].fetch_error]]
        fetched_results == [k \in 1..Len(fetch_needed) |->
                               <<fetch_needed[k], fetched[k]>>]
        puts == IF use_cache THEN fetched ELSE <<>>
        data == PutAll(loaded, now, puts)
        dirty == Len(puts) > 0
    IN  [out |-> MergeByIndex(cached_results, fetched_results),
         requests |-> [k \in 1..Len(fetch_needed) |-> symbols[fetch_needed[k]]],
         puts |-> puts,
         save_calls |-> IF use_cache THEN 1 ELSE 0,
         data |-> data,
         file |-> IF use_cache THEN MetricsCache_save(data, dirty, file).file
                  ELSE file]

----------------------------------------------------------------------------
(* The caller: it builds a batch record by record and hands it to one of   *)
(* the two screeners.                                                      *)

\* The longest batch.
MaxBatch == 3

\* Ticker symbols, by position in the batch.
SymbolNames == <<"AAA", "BBB", "CCC", "DDD", "EEE", "FFF", "GGG", "HHH">>

MetricFields == {"trailing_pe", "peg_ratio", "roe", "debt_to_equity"}

\* Three values of each metric: one that clears every threshold of either
\* screener, one that is worse and still within its safety bound, and one
\* that violates its safety bound.
GoodValue ==
    [trailing_pe |-> 10, peg_ratio |-> 8, roe |-> 20, debt_to_equity |-> 3]

WorseValue ==
    [trailing_pe |-> 20, peg_ratio |-> 15, roe |-> 10, debt_to_equity |-> 10]

UnsafeValue ==
    [trailing_pe |-> 60, peg_ratio |-> 40, roe |-> 3, debt_to_equity |-> 30]

\* The metric profiles of the batches: every metric good, or one metric
\* worse, unsafe or missing, or all four missing.
Profiles ==
    {p \in [MetricFields -> {"good", "worse", "unsafe", "none"}] :
        \/ Cardinality({f \in MetricFields : p[f] # "good"}) <= 1
        \/ \A f \in MetricFields : p[f] = "none"}

ProfileValue(p, f) ==
    CASE p[f] = "good"   -> Some(GoodValue[f])
      [] p[f] = "worse"  -> Some(WorseValue[f])
      [] p[f] = "unsafe" -> Some(UnsafeValue[f])
      [] OTHER           -> None

\* A fetched record with the profile's metrics.
ProfileRecord(symbol, p) ==
    [TickerMetrics(symbol) EXCEPT
        !.trailing_pe = ProfileValue(p, "trailing_pe"),
        !.peg_ratio = ProfileValue(p, "peg_ratio"),
        !.roe = ProfileValue(p, "roe"),
        !.debt_to_equity = ProfileValue(p, "debt_to_equity"),
        !.trailing_eps = Some(2),
        !.book_value = Some(5),
        !.current_price = Some(10),
        !.sector = Some("Technology")]

\* The thresholds a caller passes: the defaults with a minimum sector size
\* that the batches reach, and with another cutoff.
ThresholdChoices ==
    {[DEFAULT_SECTOR_THRESHOLDS EXCEPT !.min_sector_size = 3],
     [DEFAULT_SECTOR_THRESHOLDS EXCEPT
         !.min_sector_size = 2,
         !.sector_percentile_threshold = Ratio(50, 100)]}

Init ==
    /\ metrics_list = <<>>
    /\ thresholds = DEFAULT_SECTOR_THRESHOLDS
    /\ results = <<>>
    /\ pc = "input"
    /\ call = [fn |-> "none"]
    /\ cache = [data |-> NewMetricsCache.data, dirty |-> NewMetricsCache.dirty,
                file |-> [kind |-> "missing"], now |-> 0, history |-> EmptyDict,
                unsaved |-> FALSE]
    /\ fetch = [state |-> "idle"]

\* The caller appends record m to the batch.
AppendRecord(m) ==
    /\ pc = "input"
    /\ Len(metrics_list) < MaxBatch
    /\ metrics_list' = Append(metrics_list, m)
    /\ UNCHANGED <<thresholds, results, pc, call, cache, fetch>>

NextSymbol == SymbolNames[Len(metrics_list) + 1]

AddProfile ==
    \E p \in Profiles : AppendRecord(ProfileRecord(NextSymbol, p))

\* results = screen_batch_dual_track(metrics_list, th)
ScreenDualTrack ==
    /\ pc = "input"
    /\ \E th \in ThresholdChoices :
          /\ thresholds' = th
          /\ results' = screen_batch_dual_track(metrics_list, th)
    /\ pc' = "dual_track"
    /\ UNCHANGED <<metrics_list, call, cache, fetch>>

\* results = screen_batch(metrics_list)
ScreenLegacy ==
    /\ pc = "input"
    /\ results' = screen_batch(metrics_list, DEFAULT_THRESHOLDS)
    /\ pc' = "legacy"
    /\ UNCHANGED <<metrics_list, thresholds, call, cache, fetch>>

\* Batches of valid same-sector records that differ in their four metrics,
\* screened by the dual-track screener.
Next == AddProfile \/ ScreenDualTrack

Spec == Init /\ [][Next]_vars

\* Batches of fetched records that differ in validity (a fetch error, a
\* missing trailing EPS), in sector and in P/E.
FetchedRecords(symbol) ==
    {[TickerMetrics(symbol) EXCEPT
         !.trailing_pe = Some(pe),
         !.trailing_eps = eps,
         !.sector = sector,
         !.fetch_error = err] :
        pe \in {10, 60},
        eps \in {None, Some(2)},
        sector \in {None, Some("Technology")},
        err \in {None, Some("timeout")}}

AddFetched ==
    \E m \in FetchedRecords(NextSymbol) : AppendRecord(m)

NextInvalid == AddFetched \/ ScreenDualTrack

SpecInvalid == Init /\ [][NextInvalid]_vars

\* Batches in which a symbol, or a whole record, may occur more than once:
\* valid records of two sectors that pass or fail the safety bound on P/E,
\* a record whose fetch failed and a record without trailing EPS.
RepeatableRecords ==
    UNION {
        {[TickerMetrics(symbol) EXCEPT
             !.trailing_pe = Some(pe),
             !.trailing_eps = Some(2),
             !.book_value = Some(5),
             !.current_price = Some(10),
             !.sector = Some("Technology")] :
            pe \in {GoodValue.trailing_pe, UnsafeValue.trailing_pe}}
        \cup {[TickerMetrics(symbol) EXCEPT
                  !.trailing_pe = Some(GoodValue.trailing_pe),
                  !.trailing_eps = Some(2),
                  !.sector = Some("Energy")],
              [TickerMetrics(symbol) EXCEPT !.fetch_error = Some("timeout")],
              [TickerMetrics(symbol) EXCEPT
                  !.trailing_pe = Some(GoodValue.trailing_pe),
                  !.sector = Some("Technology")]} :
        symbol \in {"AAA", "BBB"}}

AddRepeatableRecord ==
    \E m \in RepeatableRecords : AppendRecord(m)

NextRepeat == AddRepeatableRecord \/ ScreenDualTrack

SpecRepeat == Init /\ [][NextRepeat]_vars

\* Batches that give results of every mode: Technology records whose four
\* metrics are all good, all worse or all unsafe or whose P/E alone is
\* unsafe, a good Energy record, a record whose fetch failed and a record
\* without trailing EPS.
ModeRecords(symbol) ==
    {ProfileRecord(symbol, [f \in MetricFields |-> level]) :
        level \in {"good", "worse", "unsafe"}}
    \cup {ProfileRecord(symbol, [f \in MetricFields |->
                                   IF f = "trailing_pe" THEN "unsafe" ELSE "good"]),
          [ProfileRecord(symbol, [f \in MetricFields |-> "good"]) EXCEPT
              !.sector = Some("Energy")],
          [TickerMetrics(symbol) EXCEPT !.fetch_error = Some("timeout")],
          [ProfileRecord(symbol, [f \in MetricFields |-> "good"]) EXCEPT
              !.trailing_eps = None]}

AddModeRecord ==
    \E m \in ModeRecords(NextSymbol) : AppendRecord(m)

NextModes == AddModeRecord \/ ScreenDualTrack

SpecModes == Init /\ [][NextModes]_vars

\* Batches for the sort order: valid same-sector records that pass or fail
\* the safety bound on P/E and differ in price (margins +33.3, 0, -33.3 and
\* -1233.3 percent of an estimate of 15, or no margin), and a record whose
\* fetch failed.
SortPrices == {None, Some(10), Some(15), Some(20), Some(200)}

SortRecords(symbol) ==
    {[TickerMetrics(symbol) EXCEPT
         !.trailing_pe = Some(pe),
         !.peg_ratio = Some(GoodValue.peg_ratio),
         !.roe = Some(GoodValue.roe),
         !.debt_to_equity = Some(GoodValue.debt_to_equity),
         !.trailing_eps = Some(2),
         !.book_value = Some(5),
         !.current_price = price,
         !.sector = Some("Technology")] :
        pe \in {GoodValue.trailing_pe, UnsafeValue.trailing_pe},
        price \in SortPrices}
    \cup {[TickerMetrics(symbol) EXCEPT !.fetch_error = Some("timeout")]}

AddSortRecord ==
    \E m \in SortRecords(NextSymbol) : AppendRecord(m)

NextSort == AddSortRecord \/ ScreenDualTrack \/ ScreenLegacy

SpecSort == Init /\ [][NextSort]_vars

\* Batches for the order of the failed results: valid records of two sectors
\* that pass or fail the safety bound on P/E and differ in price, a record
\* whose fetch failed and a record without trailing EPS.
OrderRecords(symbol) ==
    {[TickerMetrics(symbol) EXCEPT
         !.trailing_pe = Some(pe),
         !.peg_ratio = Some(GoodValue.peg_ratio),
         !.roe = Some(GoodValue.roe),
         !.debt_to_equity = Some(GoodValue.debt_to_equity),
         !.trailing_eps = Some(2),
         !.book_value = Some(5),
         !.current_price = price,
         !.sector = Some(sector)] :
        pe \in {GoodValue.trailing_pe, UnsafeValue.trailing_pe},
        price \in {Some(10), Some(20)},
        sector \in {"Technology", "Energy"}}
    \cup {[TickerMetrics(symbol) EXCEPT !.fetch_error = Some("timeout")],
          [TickerMetrics(symbol) EXCEPT !.sector = Some("Energy")]}

AddOrderRecord ==
    \E m \in OrderRecords(NextSymbol) : AppendRecord(m)

NextOrder == AddOrderRecord \/ ScreenDualTrack

SpecOrder == Init /\ [][NextOrder]_vars

\* Batches for the fair-value estimate: valid same-sector records whose
\* trailing EPS is negative, zero or positive, whose book value is missing,
\* negative, zero or positive and whose price is missing, zero or positive.
\* <<trailing_eps, book_value, current_price>>
ValueInputs ==
    {<<Some(2), Some(5), Some(10)>>, <<Some(2), Some(5), Some(0)>>,
     <<Some(2), Some(5), None>>, <<Some(2), None, Some(10)>>,
     <<Some(2), Some(0), Some(10)>>, <<Some(2), Some(-5), Some(10)>>,
     <<Some(0), Some(5), Some(10)>>, <<Some(-2), Some(5), Some(10)>>,
     <<Some(-2), Some(-5), Some(10)>>, <<Some(0), Some(0), None>>}

ValueRecords(symbol) ==
    {[TickerMetrics(symbol) EXCEPT
         !.trailing_pe = Some(GoodValue.trailing_pe),
         !.peg_ratio = Some(GoodValue.peg_ratio),
         !.roe = Some(GoodValue.roe),
         !.debt_to_equity = Some(GoodValue.debt_to_equity),
         !.trailing_eps = v[1],
         !.book_value = v[2],
         !.current_price = v[3],
         !.sector = Some("Technology")] : v \in ValueInputs}
    \cup {[TickerMetrics(symbol) EXCEPT
              !.trailing_pe = Some(UnsafeValue.trailing_pe),
              !.trailing_eps = Some(2),
              !.book_value = Some(5),
              !.current_price = Some(10),
              !.sector = Some("Technology")]}

AddValueRecord ==
    \E m \in ValueRecords(NextSymbol) : AppendRecord(m)

NextValue == AddValueRecord \/ ScreenDualTrack

SpecValue == Init /\ [][NextValue]_vars

\* The value of each metric that equals its threshold of the legacy
\* screener.
LegacyBoundaryValue ==
    [trailing_pe |-> DEFAULT_THRESHOLDS.pe_ratio_max,
     peg_ratio |-> DEFAULT_THRESHOLDS.peg_ratio_max,
     roe |-> DEFAULT_THRESHOLDS.roe_min,
     debt_to_equity |-> DEFAULT_THRESHOLDS.debt_to_equity_max]

\* Batches for the legacy screener: every metric good, or one metric on
\* its threshold, beyond it or missing, or all four missing; a record
\* whose fetch failed and a record without trailing EPS.
LegacyProfiles ==
    {p \in [MetricFields -> {"good", "boundary", "worse", "none"}] :
        \/ Cardinality({f \in MetricFields : p[f] # "good"}) <= 1
        \/ \A f \in MetricFields : p[f] = "none"}

LegacyRecords(symbol) ==
    {[TickerMetrics(symbol) EXCEPT
         !.trailing_pe = v["trailing_pe"],
         !.peg_ratio = v["peg_ratio"],
         !.roe = v["roe"],
         !.debt_to_equity = v["debt_to_equity"],
         !.trailing_eps = Some(2),
         !.book_value = Some(5),
         !.current_price = Some(10),
         !.sector = Some("Technology")] :
        v \in {[f \in MetricFields |->
                   CASE p[f] = "good"     -> Some(GoodValue[f])
                     [] p[f] = "boundary" -> Some(LegacyBoundaryValue[f])
                     [] p[f] = "worse"    -> Some(WorseValue[f])
                     [] OTHER             -> None] : p \in LegacyProfiles}}
    \cup {[TickerMetrics(symbol) EXCEPT !.fetch_error = Some("timeout")],
          [TickerMetrics(symbol) EXCEPT
              !.trailing_pe = Some(GoodValue.trailing_pe),
              !.peg_ratio = Some(GoodValue.peg_ratio),
              !.roe = Some(GoodValue.roe),
              !.debt_to_equity = Some(GoodValue.debt_to_equity)]}

AddLegacyRecord ==
    \E m \in LegacyRecords(NextSymbol) : AppendRecord(m)

NextLegacy == AddLegacyRecord \/ ScreenLegacy

SpecLegacy == Init /\ [][NextLegacy]_vars

\* The lists of at most n elements of S.
ListsUpTo(S, n) == UNION {[1..k -> S] : k \in 0..n}

\* The last second of the clock.
MaxClock == 5

\* The records put into the cache: a fetched record under an upper-case and
\* under a lower-case symbol, records of failed fetches (the text of the
\* exception, which may be empty), and a record of another symbol.
CacheRecords ==
    {[TickerMetrics("AAPL") EXCEPT !.trailing_pe = Some(10), !.trailing_eps = Some(2)],
     [TickerMetrics("aapl") EXCEPT !.trailing_pe = Some(20), !.trailing_eps = Some(2)],
     [TickerMetrics("AAPL") EXCEPT !.fetch_error = Some("Timeout")],
     [TickerMetrics("AAPL") EXCEPT !.fetch_error = Some("")],
     [TickerMetrics("MSFT") EXCEPT !.trailing_pe = Some(10), !.trailing_eps = Some(2)]}

CacheSymbols == {"AAPL", "aapl", "MSFT"}

\* cache.put(metrics)
CachePut ==
    /\ \E metrics \in CacheRecords :
          /\ cache' = [cache EXCEPT
                 !.data = MetricsCache_put(cache.data, cache.now, metrics),
                 !.dirty = TRUE,
                 !.unsaved = TRUE,
                 !.history = DictSet(cache.history, Upper(metrics.symbol),
                                     [metrics |-> metrics, at |-> cache.now])]
          /\ call' = [fn |-> "MetricsCache.put", metrics |-> metrics]
    /\ UNCHANGED <<metrics_list, thresholds, results, pc, fetch>>

\* cached = cache.get(symbol)
CacheGet ==
    /\ \E symbol \in CacheSymbols :
          call' = [fn |-> "MetricsCache.get", symbol |-> symbol, now |-> cache.now,
                   out |-> MetricsCache_get(cache.data, cache.now,
                                            TestCacheConfig, symbol)]
    /\ UNCHANGED <<metrics_list, thresholds, results, pc, cache, fetch>>

\* cache.clear()
CacheClear ==
    /\ cache' = [cache EXCEPT !.data = EmptyDict, !.dirty = TRUE,
                              !.unsaved = TRUE, !.history = EmptyDict]
    /\ call' = [fn |-> "MetricsCache.clear"]
    /\ UNCHANGED <<metrics_list, thresholds, results, pc, fetch>>

\* A second passes.
Tick ==
    /\ cache.now < MaxClock
    /\ cache' = [cache EXCEPT !.now = cache.now + 1]
    /\ UNCHANGED <<metrics_list, thresholds, results, pc, call, fetch>>

NextCache == CachePut \/ CacheGet \/ CacheClear \/ Tick

SpecCache == Init /\ [][NextCache]_vars

\* The cache files an earlier run, or a damaged disk, may have left.
ExistingFiles ==
    {[kind |-> "corrupt"], [kind |-> "undecodable"],
     [kind |-> "json",
      data |-> MetricsCache_put(EmptyDict, 0,
                  [TickerMetrics("MSFT") EXCEPT !.trailing_pe = Some(20),
                                                !.trailing_eps = Some(2)])]}

\* The cache file exists when the MetricsCache is constructed.
ExistingFile ==
    /\ call.fn = "none"
    /\ cache.file = [kind |-> "missing"]
    /\ \E file \in ExistingFiles : cache' = [cache EXCEPT !.file = file]
    /\ UNCHANGED <<metrics_list, thresholds, results, pc, call, fetch>>

\* cache.load()
CacheLoad ==
    /\ IF MetricsCache_load_raises(cache.file)
       THEN /\ call' = [fn |-> "MetricsCache.load", file |-> cache.file,
                        raised |-> TRUE]
            /\ UNCHANGED cache
       ELSE /\ call' = [fn |-> "MetricsCache.load", file |-> cache.file,
                        raised |-> FALSE]
            /\ cache' = [cache EXCEPT !.data = MetricsCache_load(cache.file)]
    /\ UNCHANGED <<metrics_list, thresholds, results, pc, fetch>>

\* cache.save()
CacheSave ==
    /\ LET saved == MetricsCache_save(cache.data, cache.dirty, cache.file)
       IN  /\ cache' = [cache EXCEPT !.file = saved.file, !.dirty = saved.dirty,
                                     !.unsaved = FALSE]
           /\ call' = [fn |-> "MetricsCache.save", wrote |-> saved.wrote,
                       changed |-> cache.unsaved]
    /\ UNCHANGED <<metrics_list, thresholds, results, pc, fetch>>

NextCacheFile == ExistingFile \/ CacheLoad \/ CachePut \/ CacheClear \/ CacheSave

SpecCacheFile == Init /\ [][NextCacheFile]_vars

\* The longest symbol list of a batch fetch.
MaxSymbols == 2

\* What the network answers to one fetch: metrics, or an error.
NetworkAnswers ==
    {[trailing_pe |-> Some(10), trailing_eps |-> Some(2), fetch_error |-> None],
     [trailing_pe |-> None, trailing_eps |-> None, fetch_error |-> Some("Timeout")]}

\* The entries earlier runs may have left in the cache file, by age at the
\* start (second 0): a fetched record that is new, as old as ttl_seconds or
\* older, and the record of a failed fetch that is new, as old as
\* error_ttl_seconds or older.
SeedEntries(symbol) ==
    {[fetched_at |-> 0 - age,
      metrics |-> to_dict([TickerMetrics(symbol) EXCEPT
                              !.trailing_pe = Some(20), !.trailing_eps = Some(2)])] :
        age \in {0, TestCacheConfig.ttl_seconds, TestCacheConfig.ttl_seconds + 1}}
    \cup
    {[fetched_at |-> 0 - age,
      metrics |-> to_dict([TickerMetrics(symbol) EXCEPT
                              !.fetch_error = Some("Timeout")])] :
        age \in {TestCacheConfig.error_ttl_seconds,
                 TestCacheConfig.error_ttl_seconds + 1}}

\* The cache files the batches start from: missing, unreadable, or the
\* file an earlier run saved.
SeedFiles ==
    {[kind |-> "missing"], [kind |-> "corrupt"]}
    \cup {[kind |-> "json", data |-> DictSet(EmptyDict, "AAPL", e)] :
             e \in SeedEntries("AAPL")}
    \cup {[kind |-> "json",
           data |-> DictSet(DictSet(EmptyDict, "AAPL", e), "MSFT", f)] :
             e \in SeedEntries("AAPL"),
             f \in {g \in SeedEntries("MSFT") : g.metrics["fetch_error"] = None}}

\* An earlier run has left a cache file.
SeedFile ==
    /\ fetch.state = "idle"
    /\ cache.file = [kind |-> "missing"]
    /\ \E file \in SeedFiles \ {[kind |-> "missing"]} :
          cache' = [cache EXCEPT !.file = file]
    /\ UNCHANGED <<metrics_list, thresholds, results, pc, call, fetch>>

\* metrics_list = fetch_batch_metrics(symbols, use_cache=use_cache)
FetchBatch ==
    /\ fetch.state = "idle"
    /\ \E symbols \in ListsUpTo(CacheSymbols, MaxSymbols), use_cache \in BOOLEAN,
          answers \in [1..MaxSymbols -> NetworkAnswers] :
          LET done == fetch_batch_metrics(symbols, use_cache, cache.file,
                                          cache.now, TestCacheConfig, answers)
          IN  /\ fetch' = [state |-> "batch_done",
                           symbols |-> symbols,
                           use_cache |-> use_cache,
                           file_before |-> cache.file,
                           now |-> cache.now,
                           requests |-> done.requests,
                           puts |-> done.puts,
                           save_calls |-> done.save_calls,
                           out |-> done.out]
              /\ cache' = [cache EXCEPT !.file = done.file]
    /\ UNCHANGED <<metrics_list, thresholds, results, pc, call>>

NextFetchBatch == SeedFile \/ FetchBatch

SpecFetchBatch == Init /\ [][NextFetchBatch]_vars

\* The largest retry_count of a fetch.
MaxRetries == 3

\* The retry_delay of a fetch, in tenths of a second.
RetryDelays == {0, 1, 10}

\* What ticker.info holds when yfinance answers.
InfoAnswers ==
    {[kind |-> "empty"], [kind |-> "no_quote_type"],
     [kind |-> "equity", trailingPE |-> Some(10), trailingEps |-> Some(2)]}

\* The texts of the exceptions yfinance raises.
ExceptionTexts == {"rate limit", "Timeout", ""}

\* _fetch_from_yfinance(symbol, retry_count, retry_delay) is called; attempt
\* is the next value of the loop variable.
StartFetch ==
    /\ fetch.state = "idle"
    /\ \E symbol \in {"AAPL", "MSFT"}, retry_count \in (0 - 1)..MaxRetries,
          retry_delay \in RetryDelays :
          fetch' = [state |-> "loop", symbol |-> symbol,
                    retry_count |-> retry_count, retry_delay |-> retry_delay,
                    attempt |-> 0, attempts |-> 0, raised |-> <<>>,
                    answer |-> None, sleeps |-> <<>>, result |-> None]
    /\ UNCHANGED <<metrics_list, thresholds, results, pc, call, cache>>

\* An attempt in which yf.Ticker(symbol).info answers: the function returns
\* the no-data record or the metrics.
AttemptAnswers ==
    /\ fetch.state = "loop"
    /\ fetch.attempt < fetch.retry_count + 1
    /\ \E info \in InfoAnswers :
          fetch' = [fetch EXCEPT
              !.state = "returned",
              !.attempts = fetch.attempts + 1,
              !.answer = Some(info),
              !.result = Some(IF NoDataReturned(info)
                              THEN NoDataRecord(fetch.symbol)
                              ELSE InfoRecord(fetch.symbol, info))]
    /\ UNCHANGED <<metrics_list, thresholds, results, pc, call, cache>>

\* An attempt that raises: the handler sleeps and the loop goes on, or after
\* the last attempt the function returns the error record.
AttemptRaises ==
    /\ fetch.state = "loop"
    /\ fetch.attempt < fetch.retry_count + 1
    /\ \E e \in ExceptionTexts :
          IF fetch.attempt < fetch.retry_count
          THEN fetch' = [fetch EXCEPT
                   !.attempts = fetch.attempts + 1,
                   !.raised = Append(fetch.raised, e),
                   !.sleeps = Append(fetch.sleeps,
                                     RetryDelay(fetch.retry_delay, fetch.attempt)),
                   !.attempt = fetch.attempt + 1]
          ELSE fetch' = [fetch EXCEPT
                   !.state = "returned",
                   !.attempts = fetch.attempts + 1,
                   !.raised = Append(fetch.raised, e),
                   !.result = Some([TickerMetrics(fetch.symbol) EXCEPT
                                       !.fetch_error = Some(e)])]
    /\ UNCHANGED <<metrics_list, thresholds, results, pc, call, cache>>

\* The loop ends without a return: the function returns "Unknown error".
LoopExhausted ==
    /\ fetch.state = "loop"
    /\ ~(fetch.attempt < fetch.retry_count + 1)
    /\ fetch' = [fetch EXCEPT
           !.state = "returned",
           !.result = Some([TickerMetrics(fetch.symbol) EXCEPT
                               !.fetch_error = Some("Unknown error")])]
    /\ UNCHANGED <<metrics_list, thresholds, results, pc, call, cache>>

NextRetry == StartFetch \/ AttemptAnswers \/ AttemptRaises \/ LoopExhausted

\* The interpreter keeps running the call: a step that can be taken is taken.
SpecRetry == Init /\ [][NextRetry]_vars /\ WF_vars(NextRetry)

\* The largest sector of the ladder batches.
MaxLadder == 10

\* A ladder: same-sector valid records ordered identically on the four
\* metrics, every value within its safety bound.  The record of level i
\* (0 is best) has P/E 8 + 2i, the last level P/E 30; PEG 0.5 + 0.1i;
\* ROE 0.30 - 0.02i; D/E 0.1 + 0.1i.
LadderRecord(i) ==
    [TickerMetrics(<<"TEC", i>>) EXCEPT
        !.trailing_pe = Some(IF i = MaxLadder - 1 THEN 30 ELSE 8 + 2 * i),
        !.peg_ratio = Some(5 + i),
        !.roe = Some(30 - 2 * i),
        !.debt_to_equity = Some(1 + i),
        !.trailing_eps = Some(2),
        !.book_value = Some(5),
        !.current_price = Some(10),
        !.sector = Some("Technology")]

\* The levels not yet in the batch.
LadderUnused ==
    {i \in 0..(MaxLadder - 1) :
        \A k \in 1..Len(metrics_list) : metrics_list[k] # LadderRecord(i)}

\* The caller appends the best or the worst of the levels not yet in the
\* batch.
AddLadderRecord ==
    /\ pc = "input"
    /\ LadderUnused # {}
    /\ \E i \in LadderUnused :
          /\ \/ \A j \in LadderUnused : i <= j
             \/ \A j \in LadderUnused : i >= j
          /\ metrics_list' = Append(metrics_list, LadderRecord(i))
    /\ UNCHANGED <<thresholds, results, pc, call, cache, fetch>>

\* results = screen_batch_dual_track(metrics_list) with the default
\* thresholds, or with those of ThresholdChoices.
ScreenLadder ==
    /\ pc = "input"
    /\ \E th \in {DEFAULT_SECTOR_THRESHOLDS} \cup ThresholdChoices :
          /\ thresholds' = th
          /\ results' = screen_batch_dual_track(metrics_list, th)
    /\ pc' = "dual_track"
    /\ UNCHANGED <<metrics_list, call, cache, fetch>>

NextLadder == AddLadderRecord \/ ScreenLadder

SpecLadder == Init /\ [][NextLadder]_vars

----------------------------------------------------------------------------
(* The helpers called on their own, as the unit tests call them            *)

\* The longest peer list of a call of the ranker on its own.
MaxPeers == 3

\* The metric values of those calls.
RankValues == {GoodValue.trailing_pe, WorseValue.trailing_pe, UnsafeValue.trailing_pe}

\* rank = _compute_metric_rank(value, all_values, lower_is_better)
CallRank ==
    /\ pc = "input"
    /\ metrics_list = <<>>
    /\ \E value \in RankValues, all_values \in ListsUpTo(RankValues, MaxPeers),
          lower_is_better \in BOOLEAN :
          call' = [fn |-> "_compute_metric_rank",
                   value |-> value,
                   all_values |-> all_values,
                   lower_is_better |-> lower_is_better,
                   out |-> _compute_metric_rank(value, all_values, lower_is_better)]
    /\ pc' = "unit"
    /\ UNCHANGED <<metrics_list, thresholds, results, cache, fetch>>

\* The value of each metric that equals its default safety bound.
BoundaryValue ==
    [trailing_pe |-> DEFAULT_SECTOR_THRESHOLDS.safety_pe_max,
     peg_ratio |-> DEFAULT_SECTOR_THRESHOLDS.safety_peg_max,
     roe |-> DEFAULT_SECTOR_THRESHOLDS.safety_roe_min,
     debt_to_equity |-> DEFAULT_SECTOR_THRESHOLDS.safety_de_max]

\* Records for the safety filter: each metric missing, within its bound,
\* equal to its bound or beyond it.
SafetyRecords ==
    {[TickerMetrics("AAA") EXCEPT
         !.trailing_pe = pe, !.peg_ratio = peg, !.roe = roe,
         !.debt_to_equity = de, !.trailing_eps = Some(2)] :
        pe \in {None, Some(GoodValue.trailing_pe), Some(BoundaryValue.trailing_pe),
                Some(UnsafeValue.trailing_pe)},
        peg \in {None, Some(GoodValue.peg_ratio), Some(BoundaryValue.peg_ratio),
                 Some(UnsafeValue.peg_ratio)},
        roe \in {None, Some(GoodValue.roe), Some(BoundaryValue.roe),
                 Some(UnsafeValue.roe)},
        de \in {None, Some(GoodValue.debt_to_equity), Some(BoundaryValue.debt_to_equity),
                Some(UnsafeValue.debt_to_equity)}}

\* passed, reasons = _apply_safety_filter(metrics)
CallSafety ==
    /\ pc = "input"
    /\ metrics_list = <<>>
    /\ \E metrics \in SafetyRecords :
          call' = [fn |-> "_apply_safety_filter",
                   metrics |-> metrics,
                   thresholds |-> DEFAULT_SECTOR_THRESHOLDS,
                   out |-> _apply_safety_filter(metrics, DEFAULT_SECTOR_THRESHOLDS)]
    /\ pc' = "unit"
    /\ UNCHANGED <<metrics_list, thresholds, results, cache, fetch>>

NextSafety == CallSafety

SpecSafety == Init /\ [][NextSafety]_vars

\* Records for the grouper: screenable records without a sector, with an
\* empty one, with the literal "Unknown" and with two named sectors.
GroupRecords(symbol) ==
    {[TickerMetrics(symbol) EXCEPT !.trailing_eps = Some(2), !.sector = sector] :
        sector \in {None, Some(""), Some("Unknown"), Some("Technology"),
                    Some("Energy")}}

AddGroupRecord ==
    \E m \in GroupRecords(NextSymbol) : AppendRecord(m)

\* groups = _group_by_sector(metrics_list)
CallGroup ==
    /\ pc = "input"
    /\ call' = [fn |-> "_group_by_sector",
                metrics_list |-> metrics_list,
                out |-> _group_by_sector(metrics_list)]
    /\ pc' = "unit"
    /\ UNCHANGED <<metrics_list, thresholds, results, cache, fetch>>

NextGroup == AddGroupRecord \/ CallGroup

SpecGroup == Init /\ [][NextGroup]_vars

\* The ranker called on its own on any value and any peer list, and called
\* by the dual-track screener on batches of same-sector records.
NextRank == CallRank \/ AddProfile \/ ScreenDualTrack

SpecRank == Init /\ [][NextRank]_vars

----------------------------------------------------------------------------
(* Vocabulary of the properties                                            *)

\* The results of a finished dual-track screening.
DualResults == IF pc = "dual_track" THEN {results[i] : i \in 1..Len(results)} ELSE {}

\* A record is invalid when a fetch error is recorded or trailing EPS is
\* absent.
InvalidRecord(m) == m.fetch_error # None \/ m.trailing_eps = None

\* The results made from valid records, and from invalid ones.
ValidResults == {r \in DualResults : ~InvalidRecord(r.metrics)}

InvalidResults == {r \in DualResults : InvalidRecord(r.metrics)}

\* The number of valid records of the batch with the sector label of m.
ValidSectorSize(m) ==
    Cardinality({i \in 1..Len(metrics_list) :
                    /\ ~InvalidRecord(metrics_list[i])
                    /\ SectorLabel(metrics_list[i]) = SectorLabel(m)})

\* The sector of the result's record has at least min_sector_size valid members.
AdequateSector(r) == ValidSectorSize(r.metrics) >= thresholds.min_sector_size

PercentileFields ==
    {"pe_percentile", "peg_percentile", "roe_percentile", "de_percentile"}

\* The percentiles of a result that are defined.
DefinedPercentiles(r) ==
    {r.sector_percentiles[1][f][1] :
        f \in {g \in PercentileFields : r.sector_percentiles[1][g] # None}}

AllWithinCutoff(r) ==
    \A p \in DefinedPercentiles(r) :
        RatioLeq(p, thresholds.sector_percentile_threshold)

\* The record violates at least one of the four safety bounds.
ViolatesSafety(m) ==
    \/ m.trailing_pe # None /\ m.trailing_pe[1] >= thresholds.safety_pe_max
    \/ m.peg_ratio # None /\ m.peg_ratio[1] >= thresholds.safety_peg_max
    \/ m.roe # None /\ m.roe[1] < thresholds.safety_roe_min
    \/ m.debt_to_equity # None /\ m.debt_to_equity[1] > thresholds.safety_de_max

----------------------------------------------------------------------------
(* Track 1 and Track 2 (checked under Spec)                                *)

\* C1: in a sector with at least min_sector_size valid members the mode is
\* dual_track, and passed_sector_filter is true iff at least one of the four
\* percentiles is defined and every defined percentile is <= the cutoff.
C1_Track1Rule ==
    \A r \in ValidResults :
        AdequateSector(r) =>
            /\ r.screening_mode = "dual_track"
            /\ r.passed_sector_filter <=>
                  (DefinedPercentiles(r) # {} /\ AllWithinCutoff(r))

\* C1 witness: a dual-track screening in which one security has no defined
\* percentile and fails Track 1, and another passes Track 1 on a defined one.
C1_Witness ==
    /\ \E r \in ValidResults :
          /\ AdequateSector(r)
          /\ DefinedPercentiles(r) = {}
          /\ ~r.passed_sector_filter
    /\ \E r \in ValidResults :
          /\ AdequateSector(r)
          /\ DefinedPercentiles(r) # {}
          /\ r.passed_sector_filter

\* C2: for every result made from a valid record, in either mode, passed
\* equals passed_sector_filter and passed_safety_filter; a security that
\* violates a safety bound is not passed.
C2_VerdictIsConjunction ==
    \A r \in ValidResults :
        /\ r.passed <=> (r.passed_sector_filter /\ r.passed_safety_filter)
        /\ ViolatesSafety(r.metrics) => ~r.passed

\* C2 witness: a security ranked within the cutoff on every defined
\* percentile that violates a safety bound and is not passed.
C2_Witness ==
    \E r \in ValidResults :
        /\ r.screening_mode = "dual_track"
        /\ r.passed_sector_filter
        /\ ViolatesSafety(r.metrics)
        /\ ~r.passed

\* C3 as stated: in a sector of adequate size, every defined percentile
\* <= the cutoff and no safety bound violated imply passed.
C3_AsStated ==
    \A r \in ValidResults :
        (AdequateSector(r) /\ AllWithinCutoff(r) /\ ~ViolatesSafety(r.metrics))
            => r.passed

\* C3 amended: in a sector of adequate size, at least one defined
\* percentile, every defined percentile <= the cutoff and no safety bound
\* violated imply passed.
C3_PassesBothTracks ==
    \A r \in ValidResults :
        (/\ AdequateSector(r)
         /\ DefinedPercentiles(r) # {}
         /\ AllWithinCutoff(r)
         /\ ~ViolatesSafety(r.metrics))
            => r.passed

\* C3 witness: a passed dual-track result one of whose percentiles equals
\* the cutoff.
C3_Witness ==
    \E r \in ValidResults :
        /\ AdequateSector(r)
        /\ thresholds.sector_percentile_threshold \in DefinedPercentiles(r)
        /\ AllWithinCutoff(r)
        /\ ~ViolatesSafety(r.metrics)
        /\ r.passed

\* C4: every member of a sector with fewer than min_sector_size valid
\* members is screened safety_only with passed_sector_filter true, never
\* carries the sector-percentile marker, has its percentiles reported, and
\* is passed iff it violates no safety bound.
C4_SmallSectorFallback ==
    \A r \in ValidResults :
        ~AdequateSector(r) =>
            /\ r.screening_mode = "safety_only"
            /\ r.passed_sector_filter
            /\ \A i \in 1..Len(r.fail_reasons) : r.fail_reasons[i] # SectorFailMarker
            /\ r.passed <=> r.passed_safety_filter
            /\ r.passed <=> ~ViolatesSafety(r.metrics)
            /\ r.sector_percentiles # None

\* C4 witness: a member of a small sector whose reported percentile is
\* above the cutoff and that is passed.
C4_Witness ==
    \E r \in ValidResults :
        /\ ~AdequateSector(r)
        /\ ~AllWithinCutoff(r)
        /\ r.passed

----------------------------------------------------------------------------
(* Invalid records (checked under SpecInvalid)                             *)

\* C5: every invalid input record yields a result with passed false and
\* mode "error", whatever its metrics and sector; no valid record is given
\* mode "error".
C5_InvalidIsError ==
    pc = "dual_track" =>
        /\ \A i \in 1..Len(metrics_list) :
              InvalidRecord(metrics_list[i]) =>
                  \E r \in DualResults : r.metrics = metrics_list[i]
        /\ \A r \in InvalidResults : ~r.passed /\ r.screening_mode = "error"
        /\ \A r \in ValidResults : r.screening_mode # "error"

\* C5 witness: a screening with an error result for a record whose fetch
\* failed, one for a record without EPS whose P/E is good, and a valid
\* record's result.
C5_Witness ==
    /\ \E r \in InvalidResults :
          r.metrics.fetch_error # None /\ r.screening_mode = "error"
    /\ \E r \in InvalidResults :
          /\ r.metrics.fetch_error = None
          /\ r.metrics.trailing_pe = Some(10)
          /\ r.screening_mode = "error"
    /\ ValidResults # {}

\* The results that are not error results, in output order.
NonErrorResults == SelectSeq(results, LAMBDA r : r.screening_mode # "error")

\* C6: invalid records take no part in the ranking: sector_count is the
\* number of valid records with the sector label, the mode is dual_track iff
\* that number is >= min_sector_size, and the non-error results are the
\* results of screening the valid records alone.
C6_InvalidExcludedFromRanking ==
    pc = "dual_track" =>
        /\ \A r \in ValidResults :
              /\ r.sector_percentiles[1].sector_count = ValidSectorSize(r.metrics)
              /\ r.screening_mode = "dual_track" <=> AdequateSector(r)
        /\ NonErrorResults =
              screen_batch_dual_track(
                  SelectSeq(metrics_list, LAMBDA m : ~InvalidRecord(m)),
                  thresholds)

\* C6 witness: a valid record with the worst P/E of its sector's records is
\* ranked best, the better P/E belonging to an invalid record of the same
\* sector, and its sector is below the minimum size only because the
\* invalid records are not counted.
C6_Witness ==
    \E r \in ValidResults :
        /\ r.screening_mode = "safety_only"
        /\ r.metrics.trailing_pe = Some(60)
        /\ r.sector_percentiles[1].pe_percentile = Some(Ratio(0, 1))
        /\ Cardinality({i \in 1..Len(metrics_list) :
                           SectorLabel(metrics_list[i]) = SectorLabel(r.metrics)})
              >= thresholds.min_sector_size
        /\ \E i \in 1..Len(metrics_list) :
              /\ InvalidRecord(metrics_list[i])
              /\ SectorLabel(metrics_list[i]) = SectorLabel(r.metrics)
              /\ metrics_list[i].trailing_pe = Some(10)

\* C7 as stated: the fail_reasons of the result of an invalid record has
\* exactly one entry, and the entry carries the record's fetch-error string.
C7_ErrorReasonVerbatim ==
    \A r \in InvalidResults :
        /\ Len(r.fail_reasons) = 1
        /\ r.metrics.fetch_error # None
        /\ r.fail_reasons[1].text = r.metrics.fetch_error[1]

----------------------------------------------------------------------------
(* Sort order (checked under SpecSort)                                     *)

\* C8: in the list either screener returns, every passed result is
\* positioned before every result that is not passed.
C8_PassedFirst ==
    pc \in {"dual_track", "legacy"} =>
        \A i, j \in 1..Len(results) :
            (results[i].passed /\ ~results[j].passed) => i < j

\* C8 witness: a returned list with a passed result behind which stands the
\* failed result of the batch's first record.
C8_Witness ==
    /\ pc \in {"dual_track", "legacy"}
    /\ \E i, j \in 1..Len(results) :
          /\ i < j
          /\ results[i].passed
          /\ ~results[j].passed
          /\ results[j].metrics = metrics_list[1]

\* C9 as stated: passed results with a defined margin are in descending
\* margin order.
C9_DescendingMargins ==
    pc = "dual_track" =>
        \A i, j \in 1..Len(results) :
            (/\ i < j
             /\ results[i].passed
             /\ results[j].passed
             /\ results[i].margin_of_safety_pct # None
             /\ results[j].margin_of_safety_pct # None)
                => RatioLeq(results[j].margin_of_safety_pct[1],
                            results[i].margin_of_safety_pct[1])

\* C10 as stated: among the passed results, every result with no margin is
\* positioned after every result with a defined margin.
C10_NoMarginLast ==
    pc = "dual_track" =>
        \A i, j \in 1..Len(results) :
            (/\ results[i].passed
             /\ results[j].passed
             /\ results[i].margin_of_safety_pct # None
             /\ results[j].margin_of_safety_pct = None)
                => i < j

----------------------------------------------------------------------------
(* Order of the failed results (checked under SpecOrder)                   *)

\* The position in the batch of the record a result was made from.
InputPosition(r) == CHOOSE i \in 1..Len(metrics_list) : metrics_list[i] = r.metrics

\* The position of the first valid record of the batch with the sector
\* label of the result's record.
SectorFirstPosition(r) ==
    CHOOSE i \in 1..Len(metrics_list) :
        /\ ~InvalidRecord(metrics_list[i])
        /\ SectorLabel(metrics_list[i]) = SectorLabel(r.metrics)
        /\ \A j \in 1..(i - 1) :
              InvalidRecord(metrics_list[j])
              \/ SectorLabel(metrics_list[j]) # SectorLabel(r.metrics)

\* Insertion order of two failed results: valid before invalid; valid ones
\* by first occurrence of their sector, then by input position; invalid
\* ones by input position.
InInsertionOrder(a, b) ==
    IF InvalidRecord(a.metrics)
    THEN InvalidRecord(b.metrics) /\ InputPosition(a) < InputPosition(b)
    ELSE \/ InvalidRecord(b.metrics)
         \/ /\ ~InvalidRecord(b.metrics)
            /\ IF SectorLabel(a.metrics) = SectorLabel(b.metrics)
               THEN InputPosition(a) < InputPosition(b)
               ELSE SectorFirstPosition(a) < SectorFirstPosition(b)

\* C11: the results that are not passed stand in insertion order: the failed
\* results of valid records sector by sector, the sectors in the order of
\* their first valid record, each sector in input order, and after them the
\* error results in input order.
C11_FailedTailInsertionOrder ==
    pc = "dual_track" =>
        \A i, j \in 1..Len(results) :
            (i < j /\ ~results[i].passed /\ ~results[j].passed)
                => InInsertionOrder(results[i], results[j])

\* C11 witness: a passed result is sorted to the front, and behind it a
\* failed result of the first sector stands before a failed result of the
\* second sector whose record came earlier in the batch and whose margin is
\* larger.
C11_Witness ==
    /\ pc = "dual_track"
    /\ \E h, i, j \in 1..Len(results) :
          /\ h < i /\ i < j
          /\ results[h].passed
          /\ ~results[i].passed /\ ~InvalidRecord(results[i].metrics)
          /\ ~results[j].passed /\ ~InvalidRecord(results[j].metrics)
          /\ InputPosition(results[i]) > InputPosition(results[j])
          /\ RatioLess(SortKey(results[i]), SortKey(results[j]))

----------------------------------------------------------------------------
(* The percentile ranker (checked under SpecRank)                          *)

\* A call of the ranker on its own has returned.
RankCalled == call.fn = "_compute_metric_rank"

\* The rational x lies in the closed interval [0, 1].
InUnitInterval(x) == RatioLeq(Ratio(0, 1), x) /\ RatioLeq(x, Ratio(1, 1))

\* v is better than w under the direction flag.
StrictlyBetter(v, w, lower_is_better) ==
    IF lower_is_better THEN v < w ELSE v > w

\* The number of entries of the peer list strictly better than the value.
StrictlyBetterCount(value, all_values, lower_is_better) ==
    Cardinality({i \in 1..Len(all_values) :
                    StrictlyBetter(all_values[i], value, lower_is_better)})

\* The value is an entry of the peer list.
AmongPeers(value, all_values) ==
    \E i \in 1..Len(all_values) : all_values[i] = value

C14_AsStated ==
    (RankCalled /\ Len(call.all_values) >= 2
                /\ AmongPeers(call.value, call.all_values)) =>
        /\ (\A i \in 1..Len(call.all_values) :
               ~StrictlyBetter(call.all_values[i], call.value, call.lower_is_better))
              => call.out = Ratio(0, 1)
        /\ (\A i \in 1..Len(call.all_values) :
               ~StrictlyBetter(call.value, call.all_values[i], call.lower_is_better))
              => call.out = Ratio(1, 1)

\* C14 amended: for a peer list of two or more entries, the best of its
\* values is ranked 0.0, and the worst of its values is ranked 1.0 when no
\* other entry of the list ties with it.
C14_BestAndUniqueWorst ==
    (RankCalled /\ Len(call.all_values) >= 2
                /\ AmongPeers(call.value, call.all_values)) =>
        /\ (\A i \in 1..Len(call.all_values) :
               ~StrictlyBetter(call.all_values[i], call.value, call.lower_is_better))
              => call.out = Ratio(0, 1)
        /\ (/\ \A i \in 1..Len(call.all_values) :
                  ~StrictlyBetter(call.value, call.all_values[i], call.lower_is_better)
            /\ Cardinality({i \in 1..Len(call.all_values) :
                               call.all_values[i] = call.value}) = 1)
              => call.out = Ratio(1, 1)

\* C14 witness: with higher being better, the lowest value of a list whose
\* two other entries tie is ranked 1.
C14_Witness ==
    /\ RankCalled
    /\ ~call.lower_is_better
    /\ Len(call.all_values) = 3
    /\ Cardinality({i \in 1..3 : call.all_values[i] = call.value}) = 1
    /\ Cardinality({i \in 1..3 : call.all_values[i] > call.value}) = 2
    /\ Cardinality({call.all_values[i] : i \in 1..3}) = 2
    /\ call.out = Ratio(1, 1)

\* The metric behind each percentile and its direction (TRUE: lower is
\* better).
PercentileMetric ==
    [pe_percentile |-> "trailing_pe", peg_percentile |-> "peg_ratio",
     roe_percentile |-> "roe", de_percentile |-> "debt_to_equity"]

PercentileLowerIsBetter ==
    [pe_percentile |-> TRUE, peg_percentile |-> TRUE,
     roe_percentile |-> FALSE, de_percentile |-> TRUE]

\* C15: the rank is the number of peers strictly better than the value by
\* the direction, divided by N - 1, N the length of the peer list, and 0 when
\* N <= 1; in a screened batch two securities with equal values of a metric
\* get equal percentiles, and a security that no security of its sector
\* beats on a metric gets percentile 0 when the percentile is defined.
C15_RankFormula ==
    /\ RankCalled =>
          LET n == Len(call.all_values)
              better == StrictlyBetterCount(call.value, call.all_values,
                                            call.lower_is_better)
          IN  IF n <= 1
              THEN call.out = Ratio(0, 1)
              ELSE call.out[1] * (n - 1) = better * call.out[2]
    /\ \A r \in ValidResults : \A g \in PercentileFields :
          LET f == PercentileMetric[g]
              p == r.sector_percentiles[1][g]
          IN  /\ \A q \in ValidResults :
                    (r.metrics[f] # None /\ q.metrics[f] = r.metrics[f])
                        => q.sector_percentiles[1][g] = p
              /\ (/\ p # None
                  /\ \A q \in ValidResults :
                        q.metrics[f] # None =>
                            ~StrictlyBetter(q.metrics[f][1], r.metrics[f][1],
                                            PercentileLowerIsBetter[g]))
                    => p = Some(Ratio(0, 1))

\* C15 witness: with higher being better, a value tied with one peer and
\* beaten by one of three is ranked 1/2.
C15_Witness ==
    /\ RankCalled
    /\ ~call.lower_is_better
    /\ Len(call.all_values) = 3
    /\ Cardinality({i \in 1..3 : call.all_values[i] = call.value}) = 2
    /\ Cardinality({i \in 1..3 : call.all_values[i] > call.value}) = 1
    /\ call.out = Ratio(1, 2)

----------------------------------------------------------------------------
(* Definedness of the percentiles (checked under Spec)                     *)

\* The number of valid records of the batch with the sector label of m
\* that have metric f.
SectorHolders(m, f) ==
    Cardinality({i \in 1..Len(metrics_list) :
                    /\ ~InvalidRecord(metrics_list[i])
                    /\ SectorLabel(metrics_list[i]) = SectorLabel(m)
                    /\ metrics_list[i][f] # None})

\* C16: each of the four percentiles of a screened security is defined iff
\* the security has the metric and at least two members of its sector
\* group, itself included, have it; it is null otherwise.
C16_PercentileDefinedness ==
    \A r \in ValidResults : \A g \in PercentileFields :
        r.sector_percentiles[1][g] # None
            <=> (/\ r.metrics[PercentileMetric[g]] # None
                 /\ SectorHolders(r.metrics, PercentileMetric[g]) >= 2)

\* C16 witness: a security with P/E and PEG whose P/E percentile is defined
\* and whose PEG percentile is null, no other member of its group having a
\* PEG; and beside it a security without P/E whose P/E percentile is null.
C16_Witness ==
    /\ \E r \in ValidResults :
          /\ r.metrics.trailing_pe # None
          /\ r.sector_percentiles[1].pe_percentile # None
          /\ r.metrics.peg_ratio # None
          /\ SectorHolders(r.metrics, "peg_ratio") = 1
          /\ r.sector_percentiles[1].peg_percentile = None
    /\ \E q \in ValidResults :
          /\ q.metrics.trailing_pe = None
          /\ SectorHolders(q.metrics, "trailing_pe") >= 2
          /\ q.sector_percentiles[1].pe_percentile = None

----------------------------------------------------------------------------
(* The safety filter (checked under SpecSafety)                            *)

\* A call of the safety filter on its own has returned.
SafetyCalled == call.fn = "_apply_safety_filter"

\* The four rules: the name each reason carries, the metric tested, the
\* threshold and the comparison that violates the rule.
SafetyRules == {"P/E >=", "PEG >=", "ROE <", "D/E >"}

RuleMetric ==
    [r \in SafetyRules |->
        CASE r = "P/E >=" -> "trailing_pe"
          [] r = "PEG >=" -> "peg_ratio"
          [] r = "ROE <"  -> "roe"
          [] OTHER        -> "debt_to_equity"]

RuleLimit(rule, th) ==
    CASE rule = "P/E >=" -> th.safety_pe_max
      [] rule = "PEG >=" -> th.safety_peg_max
      [] rule = "ROE <"  -> th.safety_roe_min
      [] OTHER           -> th.safety_de_max

RuleViolated(rule, m, th) ==
    /\ m[RuleMetric[rule]] # None
    /\ LET v == m[RuleMetric[rule]][1]
       IN  CASE rule = "P/E >=" -> v >= th.safety_pe_max
             [] rule = "PEG >=" -> v >= th.safety_peg_max
             [] rule = "ROE <"  -> v < th.safety_roe_min
             [] OTHER           -> v > th.safety_de_max

\* C17: the safety filter returns one reason per violated rule and nothing
\* else, each naming the metric's value and the threshold; a rule is
\* violated iff the metric is present and P/E >= safety_pe_max, PEG >=
\* safety_peg_max, ROE < safety_roe_min or D/E > safety_de_max; passed is
\* true iff the reason list is empty.
C17_OneReasonPerViolatedRule ==
    SafetyCalled =>
        LET m == call.metrics
            th == call.thresholds
            passed == call.out[1]
            reasons == call.out[2]
        IN  /\ \A rule \in SafetyRules :
                  Cardinality({i \in 1..Len(reasons) : reasons[i].rule = rule})
                      = IF RuleViolated(rule, m, th) THEN 1 ELSE 0
            /\ \A i \in 1..Len(reasons) :
                  /\ reasons[i].rule \in SafetyRules
                  /\ reasons[i].value = m[RuleMetric[reasons[i].rule]][1]
                  /\ reasons[i].limit = RuleLimit(reasons[i].rule, th)
            /\ passed <=> reasons = <<>>

\* C17 witness: a record whose four metrics equal their bounds gets exactly
\* the P/E and PEG reasons and is not passed.
C17_Witness ==
    /\ SafetyCalled
    /\ \A f \in MetricFields : call.metrics[f] = Some(BoundaryValue[f])
    /\ ~call.out[1]
    /\ {call.out[2][i].rule : i \in 1..Len(call.out[2])} = {"P/E >=", "PEG >="}

\* The record with the metrics of S set to None.
WithoutMetrics(m, S) ==
    [f \in DOMAIN m |-> IF f \in S THEN None ELSE m[f]]

ReasonSet(reasons) == {reasons[i] : i \in 1..Len(reasons)}

\* C18: no reason of the safety filter concerns an absent metric; setting
\* any subset of the four metrics to null leaves a subset of the reasons;
\* a record with all four absent passes with no reason.
C18_AbsentNeverFails ==
    SafetyCalled =>
        LET m == call.metrics
            th == call.thresholds
            reasons == call.out[2]
        IN  /\ \A i \in 1..Len(reasons) : m[RuleMetric[reasons[i].rule]] # None
            /\ \A S \in SUBSET MetricFields :
                  ReasonSet(_apply_safety_filter(WithoutMetrics(m, S), th)[2])
                      \subseteq ReasonSet(reasons)
            /\ (\A f \in MetricFields : m[f] = None)
                  => call.out = <<TRUE, <<>>>>

\* C18 witness: a record with two metrics absent and the two others beyond
\* their bounds gets two reasons; with those two set to null as well it
\* passes.
C18_Witness ==
    /\ SafetyCalled
    /\ call.metrics.trailing_pe = None
    /\ call.metrics.roe = None
    /\ Len(call.out[2]) = 2
    /\ _apply_safety_filter(
           WithoutMetrics(call.metrics, {"peg_ratio", "debt_to_equity"}),
           call.thresholds) = <<TRUE, <<>>>>

----------------------------------------------------------------------------
(* The fail reasons of a screened security (checked under Spec)            *)

\* C19: the fail_reasons of every non-error result is the sector-percentile
\* marker, present iff the mode is dual_track and Track 1 failed, followed
\* by exactly the result's safety_fail_reasons, and nothing else.
C19_FailReasonsComposition ==
    \A r \in ValidResults :
        r.fail_reasons =
            (IF r.screening_mode = "dual_track" /\ ~r.passed_sector_filter
             THEN <<SectorFailMarker>>
             ELSE <<>>)
            \o r.safety_fail_reasons

\* C19 witness: a dual-track result that failed both tracks: the marker
\* first, then its one safety reason; and beside it a result that failed
\* Track 1 only, with the marker alone.
C19_Witness ==
    /\ \E r \in ValidResults :
          /\ r.screening_mode = "dual_track"
          /\ ~r.passed_sector_filter
          /\ Len(r.safety_fail_reasons) = 1
          /\ r.fail_reasons = <<SectorFailMarker, r.safety_fail_reasons[1]>>
    /\ \E r \in ValidResults :
          /\ r.passed_safety_filter
          /\ r.fail_reasons = <<SectorFailMarker>>

----------------------------------------------------------------------------
(* The sector grouper (checked under SpecGroup)                            *)

\* A call of the grouper on its own has returned.
GroupCalled == call.fn = "_group_by_sector"

\* The key a record is to be filed under: its sector label, "Unknown" when
\* it has none (the sector is null or the empty string).
ExpectedGroupKey(m) ==
    IF m.sector = None \/ m.sector = Some("") THEN "Unknown" ELSE m.sector[1]

\* C20: the grouper partitions its input: every input record is in exactly
\* one group, the one keyed by its sector label, or "Unknown" when it has no
\* sector label; the groups hold nothing else; the records of a group are
\* in input order; no group is empty and no key occurs twice.
C20_GrouperPartitions ==
    GroupCalled =>
        LET ml == call.metrics_list
            groups == call.out
            Places(m) == {kj \in (1..Len(groups)) \X (1..Len(ml)) :
                             /\ kj[2] <= Len(groups[kj[1]][2])
                             /\ groups[kj[1]][2][kj[2]] = m}
            Position(m) == CHOOSE i \in 1..Len(ml) : ml[i] = m
        IN  /\ \A i \in 1..Len(ml) :
                  /\ Cardinality(Places(ml[i])) = 1
                  /\ \A kj \in Places(ml[i]) :
                        groups[kj[1]][1] = ExpectedGroupKey(ml[i])
            /\ \A k \in 1..Len(groups) :
                  /\ Len(groups[k][2]) > 0
                  /\ \A j \in 1..Len(groups[k][2]) :
                        \E i \in 1..Len(ml) : ml[i] = groups[k][2][j]
                  /\ \A j1, j2 \in 1..Len(groups[k][2]) :
                        j1 < j2 => Position(groups[k][2][j1]) < Position(groups[k][2][j2])
            /\ \A k1, k2 \in 1..Len(groups) :
                  k1 # k2 => groups[k1][1] # groups[k2][1]

\* C20 witness: the first and third records of a batch, one without a
\* sector and one with an empty sector, are the "Unknown" group in that
\* order, and the second record is a group of its own.
C20_Witness ==
    /\ GroupCalled
    /\ Len(call.metrics_list) = 3
    /\ call.metrics_list[1].sector = None
    /\ call.metrics_list[2].sector = Some("Energy")
    /\ call.metrics_list[3].sector = Some("")
    /\ call.out = <<<<"Unknown", <<call.metrics_list[1], call.metrics_list[3]>>>>,
                    <<"Energy", <<call.metrics_list[2]>>>>>>

----------------------------------------------------------------------------
(* Independence of the sectors (checked under SpecOrder)                   *)

\* The batch without the records whose sector label differs from that of m.
OwnSectorBatch(m) ==
    SelectSeq(metrics_list,
              LAMBDA x : ExpectedGroupKey(x) = ExpectedGroupKey(m))

\* C21: the result of a valid security does not depend on the records of
\* other sectors: it is the result the security gets when the batch holds
\* the records of its own sector only (so any two batches that agree on the
\* records of its sector give it the same result, in every field).
C21_NoCrossSectorDependency ==
    pc = "dual_track" =>
        \A r \in ValidResults :
            LET alone == screen_batch_dual_track(OwnSectorBatch(r.metrics),
                                                 thresholds)
            IN  \E i \in 1..Len(alone) : alone[i] = r

\* C21 witness: a dual-track security ranked best on P/E in its sector
\* while a valid record of another sector has a strictly lower P/E.
C21_Witness ==
    \E r \in ValidResults :
        /\ r.screening_mode = "dual_track"
        /\ r.sector_percentiles[1].pe_percentile = Some(Ratio(0, 1))
        /\ \E i \in 1..Len(metrics_list) :
              /\ ~InvalidRecord(metrics_list[i])
              /\ ExpectedGroupKey(metrics_list[i]) # ExpectedGroupKey(r.metrics)
              /\ metrics_list[i].trailing_pe[1] < r.metrics.trailing_pe[1]

----------------------------------------------------------------------------
(* The fair-value estimate and the margin (checked under SpecValue)        *)

\* The batch with the estimate's inputs of every valid record replaced by
\* fixed ones (the record stays valid).
WithoutValueInputs(ml) ==
    [i \in 1..Len(ml) |->
        IF InvalidRecord(ml[i]) THEN ml[i]
        ELSE [ml[i] EXCEPT !.trailing_eps = Some(2), !.book_value = None,
                           !.current_price = None]]

\* C22 as stated: the estimate of a valid record is defined iff trailing
\* EPS and book value are both present and both positive; the margin is
\* defined iff the estimate is defined and the record has a current price;
\* neither influences passed.
C22_EstimateAndMarginDefinedness ==
    pc = "dual_track" =>
        /\ \A r \in ValidResults :
              /\ r.graham_number # None
                    <=> (/\ r.metrics.trailing_eps # None
                         /\ r.metrics.book_value # None
                         /\ r.metrics.trailing_eps[1] > 0
                         /\ r.metrics.book_value[1] > 0)
              /\ r.margin_of_safety_pct # None
                    <=> (r.graham_number # None /\ r.metrics.current_price # None)
        /\ LET plain == screen_batch_dual_track(WithoutValueInputs(metrics_list),
                                                thresholds)
           IN  \A r \in ValidResults :
                  \E i \in 1..Len(plain) :
                      /\ plain[i].symbol = r.symbol
                      /\ plain[i].passed = r.passed

----------------------------------------------------------------------------
(* The ladder scenario (checked under SpecLadder)                          *)

\* The P/E values of the batch.
BatchPE == {metrics_list[k].trailing_pe[1] : k \in 1..Len(metrics_list)}

\* The number of records of the batch with a P/E below that of m.
LowerPECount(m) ==
    Cardinality({k \in 1..Len(metrics_list) :
                    metrics_list[k].trailing_pe[1] < m.trailing_pe[1]})

\* C23: for six same-sector securities with P/E 8, 10, 12, 14, 16, 30 under
\* the default thresholds the P/E percentiles are 0, 1/5, 2/5, 3/5, 4/5, 1
\* and exactly the securities with P/E 8 and 10 pass Track 1; in general, in
\* a sector of N >= min_sector_size securities ordered identically on the
\* four metrics, the i-th best passes Track 1 iff i/(N-1) <= the cutoff
\* (3 of 10 under the default thresholds).
C23_LadderScenario ==
    pc = "dual_track" =>
        /\ (thresholds = DEFAULT_SECTOR_THRESHOLDS /\ Len(metrics_list) = 6
            /\ BatchPE = {8, 10, 12, 14, 16, 30}) =>
              \A r \in ValidResults :
                  /\ r.sector_percentiles[1].pe_percentile =
                        Some(CASE r.metrics.trailing_pe[1] = 8  -> Ratio(0, 1)
                               [] r.metrics.trailing_pe[1] = 10 -> Ratio(1, 5)
                               [] r.metrics.trailing_pe[1] = 12 -> Ratio(2, 5)
                               [] r.metrics.trailing_pe[1] = 14 -> Ratio(3, 5)
                               [] r.metrics.trailing_pe[1] = 16 -> Ratio(4, 5)
                               [] OTHER -> Ratio(1, 1))
                  /\ r.passed_sector_filter <=> r.metrics.trailing_pe[1] \in {8, 10}
        /\ (Len(metrics_list) >= thresholds.min_sector_size
            /\ Len(metrics_list) >= 2) =>
              \A r \in ValidResults :
                  r.passed_sector_filter
                      <=> LowerPECount(r.metrics) * thresholds.sector_percentile_threshold[2]
                            <= thresholds.sector_percentile_threshold[1]
                                  * (Len(metrics_list) - 1)
        /\ (thresholds = DEFAULT_SECTOR_THRESHOLDS /\ Len(metrics_list) = 10) =>
              Cardinality({r \in ValidResults : r.passed_sector_filter}) = 3

\* C23 witness: the scenario batch, appended out of rank order, screened
\* with the default thresholds; the P/E 30 security fails Track 1 only.
C23_Witness ==
    /\ pc = "dual_track"
    /\ thresholds = DEFAULT_SECTOR_THRESHOLDS
    /\ Len(metrics_list) = 6
    /\ BatchPE = {8, 10, 12, 14, 16, 30}
    /\ metrics_list[1].trailing_pe = Some(30)
    /\ Cardinality({r \in ValidResults : r.passed}) = 2
    /\ \E r \in ValidResults :
          /\ r.metrics.trailing_pe = Some(30)
          /\ ~r.passed_sector_filter
          /\ r.passed_safety_filter

----------------------------------------------------------------------------
(* The legacy absolute screener (checked under SpecLegacy)                 *)

\* The results of a finished legacy screening.
LegacyResults == IF pc = "legacy" THEN {results[i] : i \in 1..Len(results)} ELSE {}

\* The reason each missing metric adds.
UnavailableReason ==
    [trailing_pe |-> "P/E ratio unavailable",
     peg_ratio |-> "PEG ratio unavailable",
     roe |-> "ROE unavailable",
     debt_to_equity |-> "Debt/Equity unavailable"]

\* The record has all four metrics and each satisfies its threshold.
MeetsAbsoluteThresholds(m) ==
    /\ \A f \in MetricFields : m[f] # None
    /\ m.trailing_pe[1] < DEFAULT_THRESHOLDS.pe_ratio_max
    /\ m.peg_ratio[1] < DEFAULT_THRESHOLDS.peg_ratio_max
    /\ m.roe[1] >= DEFAULT_THRESHOLDS.roe_min
    /\ m.debt_to_equity[1] <= DEFAULT_THRESHOLDS.debt_to_equity_max

\* C24: the legacy screener treats missing data as failure: a valid ticker
\* passes iff all four metrics are present and satisfy their thresholds,
\* whatever the other tickers of the batch; each missing metric adds its
\* "unavailable" reason; an invalid ticker fails with the single reason
\* "Invalid data"; no percentile or mode is consulted.
C24_LegacyAbsoluteScreen ==
    \A r \in LegacyResults :
        IF InvalidRecord(r.metrics)
        THEN /\ ~r.passed
             /\ Len(r.fail_reasons) = 1
             /\ r.fail_reasons[1].prefix = "Invalid data: "
        ELSE /\ r.passed <=> MeetsAbsoluteThresholds(r.metrics)
             /\ \A f \in MetricFields :
                   Cardinality({i \in 1..Len(r.fail_reasons) :
                                   r.fail_reasons[i] = [rule |-> UnavailableReason[f]]})
                       = IF r.metrics[f] = None THEN 1 ELSE 0
             /\ r.passed <=> r.fail_reasons = <<>>

\* C24 witness: a batch in which a ticker with every metric good passes, a
\* ticker whose only flaw is a missing PEG fails on the one reason "PEG
\* ratio unavailable", and a ticker without trailing EPS fails as invalid.
C24_Witness ==
    /\ \E r \in LegacyResults : r.passed
    /\ \E r \in LegacyResults :
          /\ ~InvalidRecord(r.metrics)
          /\ r.metrics.peg_ratio = None
          /\ ~r.passed
          /\ r.fail_reasons = <<[rule |-> "PEG ratio unavailable"]>>
    /\ \E r \in LegacyResults :
          /\ r.metrics.fetch_error = None
          /\ InvalidRecord(r.metrics)
          /\ ~r.passed

----------------------------------------------------------------------------
(* The metrics cache: get, put, clear and the clock (checked under         *)
(* SpecCache)                                                              *)

\* The TTL that applies to a record: error_ttl_seconds for a record with a
\* fetch_error, ttl_seconds for a record without.
ApplicableTTL(m) ==
    IF m.fetch_error # None
    THEN TestCacheConfig.error_ttl_seconds
    ELSE TestCacheConfig.ttl_seconds

\* Two symbols that differ in case only.
SameSymbol(a, b) ==
    {a, b} \subseteq {"AAPL", "aapl"} \/ {a, b} \subseteq {"MSFT", "msft"}

\* C25 as stated: get(symbol) returns the record most recently put for the
\* symbol (compared case-insensitively) iff there is one since the last
\* clear and its age is at most the applicable TTL (ttl_seconds without a
\* fetch_error, error_ttl_seconds with one); it returns None otherwise.
C25_GetRespectsTTL ==
    (call.fn = "MetricsCache.get" /\ call.now = cache.now) =>
        LET puts == {k \in DOMAIN cache.history :
                        SameSymbol(cache.history[k].metrics.symbol, call.symbol)}
        IN  IF \E k \in puts :
                   cache.now - cache.history[k].at
                       <= ApplicableTTL(cache.history[k].metrics)
            THEN \E k \in puts : call.out = Some(cache.history[k].metrics)
            ELSE call.out = None

----------------------------------------------------------------------------
(* The output as a rearrangement of the input (checked under SpecRepeat)   *)

\* How many entries of the sequence equal x.
Occurrences(seq, x) == Cardinality({i \in 1..Len(seq) : seq[i] = x})

\* C29: the output of screen_batch_dual_track has exactly one result per
\* input record: it is as long as the input, every record is the metrics
\* of as many results as it has occurrences in the input, and each result
\* carries the symbol of its record; so no record, valid or not, with a
\* repeated symbol or not, is dropped or screened twice.
C29_OutputRearrangesInput ==
    pc = "dual_track" =>
        /\ Len(results) = Len(metrics_list)
        /\ \A m \in RepeatableRecords :
              Occurrences([i \in 1..Len(results) |-> results[i].metrics], m)
                  = Occurrences(metrics_list, m)
        /\ \A i \in 1..Len(results) : results[i].symbol = results[i].metrics.symbol

\* A screened batch of full length with the same valid record twice and an
\* invalid record of the same symbol.
C29_Witness ==
    /\ pc = "dual_track"
    /\ Len(metrics_list) = MaxBatch
    /\ \E i, j, k \in 1..Len(metrics_list) :
          /\ i < j
          /\ metrics_list[i] = metrics_list[j]
          /\ is_valid(metrics_list[i])
          /\ ~is_valid(metrics_list[k])
          /\ metrics_list[k].symbol = metrics_list[i].symbol

----------------------------------------------------------------------------
(* The verdict and the fail reasons (checked under SpecModes)              *)

\* C30: in every result of screen_batch_dual_track, of any mode, passed is
\* true iff fail_reasons is empty; and a passed result has mode dual_track
\* or safety_only, both track flags true and no safety fail reason.
C30_PassedIffNoFailReasons ==
    pc = "dual_track" =>
        \A i \in 1..Len(results) :
            /\ results[i].passed <=> (Len(results[i].fail_reasons) = 0)
            /\ results[i].passed =>
                  /\ results[i].screening_mode \in {"dual_track", "safety_only"}
                  /\ results[i].passed_sector_filter
                  /\ results[i].passed_safety_filter
                  /\ Len(results[i].safety_fail_reasons) = 0

\* An output with a passed result, a dual-track result that failed Track 1
\* alone, and an error result.
C30_Witness ==
    /\ pc = "dual_track"
    /\ \E i, j, k \in 1..Len(results) :
          /\ results[i].passed
          /\ results[i].screening_mode = "dual_track"
          /\ ~results[j].passed
          /\ results[j].screening_mode = "dual_track"
          /\ results[j].passed_safety_filter
          /\ Len(results[j].fail_reasons) = 1
          /\ results[k].screening_mode = "error"
          /\ Len(results[k].fail_reasons) = 1

----------------------------------------------------------------------------
(* The cache file (checked under SpecCacheFile)                            *)

\* The entries a fresh MetricsCache has after loading the file.
FileEntries(file) == IF file.kind = "json" THEN file.data ELSE EmptyDict

\* C27 as stated: after any sequence of load/put/clear/save calls, save()
\* writes the file iff a put or clear happened since the last save; when it
\* returns the cache is not dirty and the file holds the in-memory data, so
\* that a fresh instance loading the file has every record put (and not
\* cleared) before the save; and load() of a missing or corrupt file gives
\* an empty cache without raising.
C27_SaveAndLoad ==
    /\ call.fn = "MetricsCache.save" =>
          /\ call.wrote <=> call.changed
          /\ ~cache.dirty
          /\ FileEntries(cache.file) = cache.data
          /\ \A k \in DOMAIN cache.history :
                /\ k \in DOMAIN FileEntries(cache.file)
                /\ FileEntries(cache.file)[k].metrics["symbol"]
                       = cache.history[k].metrics.symbol
                /\ FileEntries(cache.file)[k].metrics["fetch_error"]
                       = cache.history[k].metrics.fetch_error
                /\ FileEntries(cache.file)[k].metrics["trailing_pe"]
                       = cache.history[k].metrics.trailing_pe
    /\ (call.fn = "MetricsCache.load" /\ call.file.kind # "json") =>
          /\ ~call.raised
          /\ cache.data = EmptyDict

----------------------------------------------------------------------------
(* The retry loop (checked under SpecRetry)                                *)

\* _fetch_from_yfinance has been called and has not returned.
FetchRunning == fetch.state = "loop"

\* _fetch_from_yfinance has returned.
FetchReturned == fetch.state = "returned"

\* The waits after k failed attempts that were each followed by another
\* attempt: retry_delay, 2 retry_delay, 4 retry_delay, ...
BackoffWaits(k) ==
    [i \in 1..k |->
        CASE i = 1 -> fetch.retry_delay
          [] i = 2 -> fetch.retry_delay + fetch.retry_delay
          [] i = 3 -> 4 * fetch.retry_delay
          [] i = 4 -> 8 * fetch.retry_delay
          [] OTHER -> 16 * fetch.retry_delay]

\* What holds of a call of _fetch_from_yfinance at every moment.
RetryLoopContract ==
    /\ (FetchRunning \/ FetchReturned) =>
          fetch.attempts <= fetch.retry_count + 1
    /\ (FetchReturned /\ fetch.attempts > 0) =>
          LET failed == Len(fetch.raised)
              record == fetch.result[1]
          IN  IF failed = fetch.attempts
              THEN \* every attempt raised
                   /\ fetch.attempts = fetch.retry_count + 1
                   /\ record.fetch_error = Some(fetch.raised[failed])
                   /\ record.symbol = fetch.symbol
                   /\ fetch.sleeps = BackoffWaits(failed - 1)
              ELSE \* the first attempt that did not raise is the last one
                   /\ fetch.attempts = failed + 1
                   /\ fetch.sleeps = BackoffWaits(failed)
                   /\ record.symbol = fetch.symbol
                   /\ IF fetch.answer[1].kind = "equity"
                      THEN /\ record.fetch_error = None
                           /\ record.trailing_pe = fetch.answer[1].trailingPE
                      ELSE record.fetch_error \in
                               {Some("No data returned for AAPL"),
                                Some("No data returned for MSFT")}

\* C28: _fetch_from_yfinance always terminates and raises nothing: it makes
\* at most retry_count + 1 attempts, returns the result of the first attempt
\* that does not raise (metrics, or the no-data error record, which is not
\* retried), waits retry_delay * 2^k after the k-th failed attempt (k from
\* 0) except after the last one, and when every attempt raises returns a
\* record whose fetch_error is the text of the last exception.
C28_RetryTerminatesWithBackoff ==
    /\ []RetryLoopContract
    /\ FetchRunning ~> FetchReturned

\* All three attempts of a call with retry_count 2 raise: two waits, and the
\* last text is returned.
C28_Witness ==
    /\ FetchReturned
    /\ fetch.retry_count = 2
    /\ fetch.retry_delay = 10
    /\ fetch.raised = <<"rate limit", "rate limit", "Timeout">>
    /\ fetch.sleeps = <<10, 20>>
    /\ fetch.result[1].fetch_error = Some("Timeout")

----------------------------------------------------------------------------
(* The batch fetch (checked under SpecFetchBatch)                          *)

\* A call of fetch_batch_metrics has returned.
BatchDone == fetch.state = "batch_done"

\* The keys of the file the call started from under which a record for the
\* symbol is stored that is no older than its TTL.
FreshKeys(symbol) ==
    IF fetch.file_before.kind # "json" THEN {}
    ELSE {k \in DOMAIN fetch.file_before.data :
             /\ SameSymbol(k, symbol)
             /\ fetch.now - fetch.file_before.data[k].fetched_at
                   <= (IF fetch.file_before.data[k].metrics["fetch_error"] # None
                       THEN TestCacheConfig.error_ttl_seconds
                       ELSE TestCacheConfig.ttl_seconds)}

\* The positions of the symbol list that are not served from the cache.
FetchPositions ==
    {i \in 1..Len(fetch.symbols) :
        ~fetch.use_cache \/ FreshKeys(fetch.symbols[i]) = {}}

====
